---- MODULE Spec2Model ----
(***************************************************************************)
(* NBA Player Game: the career builder page (future.js) and the matchup    *)
(* resolver (script.js).                                                   *)
(*                                                                         *)
(* Numbers.  JavaScript doubles are modelled as exact fixed-point values:  *)
(*   stat lines (pts, ast, reb, stl, blk, per)   hundredths                *)
(*   career curve and season factor               1/10000                   *)
(*   composite scores                             1/10000                   *)
(*   match scores                                 1/4000000                 *)
(* A product is truncated to its unit.  Names are sequences of character   *)
(* codes, so that trimming and hashing act on characters.                  *)
(***************************************************************************)
EXTENDS Integers, Sequences, FiniteSets, TLC

VARIABLES
  \* ---- career builder page (future.js) ----
  players,          \* let players: the loaded data set
  activeAttributes, \* let activeAttributes
  playerName,       \* value of the #playerName input
  playerPosition,   \* value of the #playerPosition select
  futureEra,        \* value of the #futureEra select
  eraFilter,        \* let eraFilter
  customPeak,       \* const customPeak: attribute -> pick or NoPick
  teamOptions,      \* let teamOptions
  chosenTeam,       \* let chosenTeam
  teamField,        \* value of the #future-team-value input
  modal,            \* what the modal overlay shows, "hidden" when closed
  futureResults,    \* what #futureResults shows
  lastAlert,        \* the alert raised by the handler that ran last, or None
  \* ---- one call of simulateCareer (future.js) ----
  pc,               \* "idle", "loop" (at the loop test) or "done" (returned)
  args,             \* the arguments of the call
  custom,           \* const custom
  league,           \* const league
  totalGames,       \* const totalGames
  totalYears,       \* const totalYears
  year,             \* let year
  seasons,          \* const seasons
  awards,           \* let awards
  lastYearScore,    \* let lastYearScore
  output,           \* the value returned, None before the return
  firstOutput,      \* the value an earlier call with the same arguments returned
  \* ---- the matchup resolver (script.js) ----
  matchLog,         \* the matches rendered so far: arguments, story, winner
  rngState,         \* let s of the generator made last, None before the first
  \* ---- the draft game page (script.js) ----
  gameMode,         \* let gameMode
  participants,     \* let participants
  simulationResult, \* what #simulationResult shows, None while empty
  gameAlert,        \* the alert raised by the handler that ran last, or None
  storyCalls,       \* the calls of simulateGameStory the handler that ran last made
  \* ---- the biography backend (backend/careerPayloadBuilder.js) ----
  serverNow,           \* Date.now(), in ticks
  geminiDisabledUntil, \* let geminiDisabledUntil, None for null
  bioCache,            \* const bioCache: cache key -> text, None where absent
  requests,            \* the POST /api/ai/career requests received, in order
  \* ---- the results view and its AI buttons (future.js) ----
  seasonStats,          \* the argument of computeTeamImpactScore
  teamImpact,           \* the value it returned, None before the call
  lastSimulationOutput, \* let lastSimulationOutput, None for null
  aiButtons,            \* the two buttons of #futureResults, None while absent
  statusFetches,        \* the outputs whose setupAIButtons awaits fetchAIStatus
  aiModalCalls          \* the calls of aiModal.open made so far

uiVars == <<players, activeAttributes, playerName, playerPosition, futureEra,
            eraFilter, customPeak, teamOptions, chosenTeam, teamField, modal,
            futureResults, lastAlert>>

careerVars == <<pc, args, custom, league, totalGames, totalYears, year, seasons,
                awards, lastYearScore, output, firstOutput>>

gameVars == <<gameMode, participants, simulationResult, gameAlert, storyCalls>>

matchVars == <<matchLog, rngState, gameVars>>

serverVars == <<serverNow, geminiDisabledUntil, bioCache, requests>>

clientVars == <<seasonStats, teamImpact, lastSimulationOutput, aiButtons,
                statusFetches, aiModalCalls>>

vars == <<uiVars, careerVars, matchVars, serverVars, clientVars>>

\* an absent optional value is the empty sequence, a present one <<v>>
None == <<>>
Some(v) == <<v>>

\* JavaScript null where the other values are strings
Null == "null"

\* ------------------------------------------------------------------------
\* Generic helpers
\* ------------------------------------------------------------------------
Max(a, b) == IF a >= b THEN a ELSE b
Min(a, b) == IF a <= b THEN a ELSE b

clamp(x, lo, hi) == Max(lo, Min(hi, x))

Range(s) == {s[i] : i \in 1..Len(s)}

Includes(s, x) == \E i \in 1..Len(s) : s[i] = x

\* arr.splice(idx, 1): the array without its element at 0-based index idx
SpliceOut(s, idx) == [i \in 1..(Len(s) - 1) |-> IF i <= idx THEN s[i] ELSE s[i + 1]]

\* String.prototype.trim on a sequence of character codes
Space == 32

RECURSIVE TrimLeft(_)
TrimLeft(s) ==
  IF s # <<>> /\ Head(s) = Space THEN TrimLeft(Tail(s)) ELSE s

RECURSIVE TrimRight(_)
TrimRight(s) ==
  IF s # <<>> /\ s[Len(s)] = Space THEN TrimRight(SubSeq(s, 1, Len(s) - 1)) ELSE s

Trim(s) == TrimRight(TrimLeft(s))

\* ------------------------------------------------------------------------
\* Career builder page: data
\* ------------------------------------------------------------------------
ATTRIBUTES == <<"shooting", "passing", "rebounding", "steals", "blocks",
                "longevity", "athleticism", "height">>

\* the attributes whose column the loaded data set has: STL and BLK come from
\* the optional JSON enrichment
OptionalAttributes == {"steals", "blocks"}

FallbackTeams == <<"Lakers", "Celtics", "Bulls", "Warriors", "Spurs",
                   "Heat", "Knicks", "Suns", "Mavs", "Nuggets",
                   "Raptors", "Jazz", "Sixers", "Pistons", "Hawks",
                   "Clippers", "Pacers", "Wizards", "Bucks", "Blazers">>

MinEraTeams == 10
MaxTeamOptions == 5

\* values of the era select, as character codes: "all" and "1990s"
EraAll == <<97, 108, 108>>
Era1990s == <<49, 57, 57, 48, 115>>
Eras == {EraAll, Era1990s}

\* teams_by_era_updated.json as loaded: a list for the 1990s
TeamsByEraData ==
  [e \in {Era1990s} |->
     <<"Bulls", "Jazz", "SuperSonics", "Knicks", "Rockets",
       "Magic", "Suns", "Pacers", "Lakers", "Bullets">>]

pickTeamsForEra(era) ==
  IF era \in DOMAIN TeamsByEraData /\ Len(TeamsByEraData[era]) >= MinEraTeams
  THEN TeamsByEraData[era]
  ELSE FallbackTeams

\* the outcomes of Math.floor(Math.random() * n) that are explored: the
\* lowest and the highest index
RandomIndex(n) == {0, n - 1}

\* generateTeamOptions' loop: draw without replacement until 5 are picked;
\* hi tells which of the two explored outcomes every draw of the loop takes
RECURSIVE TeamDraws(_, _, _)
TeamDraws(pool, picked, hi) ==
  IF pool = <<>> \/ Len(picked) >= MaxTeamOptions
  THEN picked
  ELSE LET idx == IF hi THEN Len(pool) - 1 ELSE 0
       IN  TeamDraws(SpliceOut(pool, idx), Append(picked, pool[idx + 1]), hi)

\* ------------------------------------------------------------------------
\* Strings as character codes
\* ------------------------------------------------------------------------
\* String.prototype.toLowerCase on the ASCII letters
LowerCode(c) == IF c >= 65 /\ c <= 90 THEN c + 32 ELSE c
ToLower(s) == [i \in 1..Len(s) |-> LowerCode(s[i])]

\* String.prototype.includes
StrIncludes(s, sub) ==
  \E i \in 0..(Len(s) - Len(sub)) : SubSeq(s, i + 1, i + Len(sub)) = sub

\* parseInt of a string of decimal digits
RECURSIVE ParseDigits(_, _)
ParseDigits(s, acc) ==
  IF s = <<>> \/ Head(s) < 48 \/ Head(s) > 57
  THEN acc
  ELSE ParseDigits(Tail(s), acc * 10 + (Head(s) - 48))

\* s.slice(0, n)
SliceTo(s, n) == SubSeq(s, 1, Min(n, Len(s)))

WordPoint == <<112, 111, 105, 110, 116>>  \* "point"
WordShooting == <<115, 104, 111, 111, 116, 105, 110, 103>>  \* "shooting"
WordCenter == <<99, 101, 110, 116, 101, 114>>  \* "center"

\* values of the position select
PointGuard == <<80, 111, 105, 110, 116, 32, 71, 117, 97, 114, 100>>  \* "Point Guard"
ShootingGuard == <<83, 104, 111, 111, 116, 105, 110, 103, 32, 71, 117, 97, 114, 100>>  \* "Shooting Guard"
SmallForward == <<83, 109, 97, 108, 108, 32, 70, 111, 114, 119, 97, 114, 100>>  \* "Small Forward"
Center == <<67, 101, 110, 116, 101, 114>>  \* "Center"

\* ------------------------------------------------------------------------
\* Data set rows.  PTS, AST, TRB, STL, BLK, PER in hundredths, FG% in
\* thousandths, G in games, Height in inches, Debut a year.
\* ------------------------------------------------------------------------
Row(name, debut, pos, g, pts, trb, ast, per, fg, stl, blk, height) ==
  [Name |-> name, Debut |-> debut, Position |-> pos, G |-> g, PTS |-> pts,
   TRB |-> trb, AST |-> ast, PER |-> per, FG |-> fg, STL |-> stl,
   BLK |-> blk, Height |-> height]

ATTR_MAP ==
  [a \in {"shooting", "passing", "rebounding", "steals", "blocks",
          "longevity", "height"} |->
     CASE a = "shooting" -> "PTS"
       [] a = "passing" -> "AST"
       [] a = "rebounding" -> "TRB"
       [] a = "steals" -> "STL"
       [] a = "blocks" -> "BLK"
       [] a = "longevity" -> "G"
       [] a = "height" -> "Height"]

\* computeAthleticism, in 1/100000
computeAthleticism(per, fg, reb, g, height) ==
  IF per = 0 THEN 0
  ELSE LET perNorm == Min(Max(per - 1500, -1500), 1500)
           fgPct == IF fg # 0 THEN (IF fg > 1000 THEN fg \div 100 ELSE fg) ELSE 0
           fgBonus == IF fgPct # 0 THEN (fgPct - 450) * 4 ELSE 0
           rebBonus == IF reb # 0 THEN Min(reb, 1200) ELSE 0
           durability == IF g # 0 THEN Min((g * 1000) \div 1200, 1000) ELSE 0
           heightBonus == IF height # 0 THEN ((height - 78) * 1000) \div 12 ELSE 0
       IN  45 * perNorm + 20 * fgBonus + 20 * rebBonus + 10 * durability
             + 5 * heightBonus

inEra(player, era) ==
  IF era = EraAll THEN TRUE
  ELSE LET start == ParseDigits(SliceTo(era, 4), 0)
       IN  player.Debut >= start /\ player.Debut < start + 10

\* the value a pick of player p stores for attribute attrKey
PickValue(attrKey, p) ==
  IF attrKey = "athleticism"
  THEN computeAthleticism(p.PER, p.FG, p.TRB, p.G, p.Height)
  ELSE p[ATTR_MAP[attrKey]]

\* computeActiveAttributes, given whether the STL and BLK columns exist
computeActiveAttributes(hasStlBlk) ==
  SelectSeq(ATTRIBUTES, LAMBDA a : a \notin OptionalAttributes \/ hasStlBlk)

NoPicks == [a \in Range(ATTRIBUTES) |-> None]

\* ------------------------------------------------------------------------
\* Career builder page: handlers
\* ------------------------------------------------------------------------
\* typing into the #playerName input
NameInputs == {<<>>, <<32>>, <<32, 65, 108, 32>>}

TypeName(n) ==
  /\ playerName' = n
  /\ lastAlert' = None
  /\ UNCHANGED <<players, activeAttributes, playerPosition, futureEra, eraFilter,
                 customPeak, teamOptions, chosenTeam, teamField, modal,
                 futureResults>>
  /\ UNCHANGED <<careerVars, matchVars, serverVars, clientVars>>

\* futureEra.onchange
ChangeEra(e) ==
  /\ futureEra' = e
  /\ eraFilter' = e
  /\ lastAlert' = None
  /\ UNCHANGED <<players, activeAttributes, playerName, playerPosition,
                 customPeak, teamOptions, chosenTeam, teamField, modal,
                 futureResults>>
  /\ UNCHANGED <<careerVars, matchVars, serverVars, clientVars>>

\* a row's Pick button (openFutureModal) followed by a Select button of the
\* table it shows: the table lists players of the current era
SelectPlayer(attrKey, p) ==
  /\ Includes(activeAttributes, attrKey)
  /\ inEra(p, eraFilter)
  /\ customPeak' = [customPeak EXCEPT ![attrKey] =
                      Some([value |-> PickValue(attrKey, p), source |-> p.Name])]
  /\ modal' = "hidden"
  /\ lastAlert' = None
  /\ UNCHANGED <<players, activeAttributes, playerName, playerPosition,
                 futureEra, eraFilter, teamOptions, chosenTeam, teamField,
                 futureResults>>
  /\ UNCHANGED <<careerVars, matchVars, serverVars, clientVars>>

\* generateTeamOptions
generateTeamOptions(era, hi) == TeamDraws(pickTeamsForEra(era), <<>>, hi)

\* the TEAM row's Pick button
openTeamModal(hi) ==
  /\ teamOptions' = generateTeamOptions(futureEra, hi)
  /\ chosenTeam' = Null
  /\ modal' = "team"
  /\ lastAlert' = None
  /\ UNCHANGED <<players, activeAttributes, playerName, playerPosition,
                 futureEra, eraFilter, customPeak, teamField, futureResults>>
  /\ UNCHANGED <<careerVars, matchVars, serverVars, clientVars>>

\* a Select button of the team table
SelectTeam(i) ==
  /\ modal = "team"
  /\ i \in 1..Len(teamOptions)
  /\ chosenTeam' = teamOptions[i]
  /\ teamField' = teamOptions[i]
  /\ modal' = "hidden"
  /\ lastAlert' = None
  /\ UNCHANGED <<players, activeAttributes, playerName, playerPosition,
                 futureEra, eraFilter, customPeak, teamOptions, futureResults>>
  /\ UNCHANGED <<careerVars, matchVars, serverVars, clientVars>>

\* the modal's Close button
CloseModal ==
  /\ modal # "hidden"
  /\ modal' = "hidden"
  /\ lastAlert' = None
  /\ UNCHANGED <<players, activeAttributes, playerName, playerPosition,
                 futureEra, eraFilter, customPeak, teamOptions, chosenTeam,
                 teamField, futureResults>>
  /\ UNCHANGED <<careerVars, matchVars, serverVars, clientVars>>

\* choosing another value of the #playerPosition select
ChangePosition(pos) ==
  /\ playerPosition' = pos
  /\ lastAlert' = None
  /\ UNCHANGED <<players, activeAttributes, playerName, futureEra, eraFilter,
                 customPeak, teamOptions, chosenTeam, teamField, modal,
                 futureResults>>
  /\ UNCHANGED <<careerVars, matchVars, serverVars, clientVars>>

\* the Clear button
resetPlayerBuilder ==
  /\ playerName' = <<>>
  /\ futureResults' = None
  /\ customPeak' = NoPicks
  /\ teamOptions' = <<>>
  /\ chosenTeam' = Null
  /\ teamField' = ""
  /\ lastAlert' = None
  /\ UNCHANGED <<players, activeAttributes, playerPosition, futureEra,
                 eraFilter, modal>>
  /\ UNCHANGED <<careerVars, matchVars, serverVars, clientVars>>

\* simulateCareer's choice of the custom player's team
CustomTeams(teams, teamOverride) ==
  IF teamOverride # Null /\ Includes(teams, teamOverride)
  THEN {teamOverride}
  ELSE {teams[idx + 1] : idx \in RandomIndex(Len(teams))}

\* a loop over the active attributes that finds every one of them picked
NoneMissing == None

\* the first unpicked active attribute, or None
FirstMissing ==
  LET miss == SelectSeq(activeAttributes, LAMBDA a : customPeak[a] = None)
  IN  IF miss = <<>> THEN None ELSE Some(Head(miss))

\* the Career Sim button
simulateFutureOnclick ==
  LET name == Trim(playerName) IN
  /\ eraFilter' = futureEra
  /\ IF name = <<>>
     THEN /\ lastAlert' = Some([msg |-> "Please enter a player name before simulating.",
                                arg |-> ""])
          /\ UNCHANGED futureResults
     ELSE IF FirstMissing # None
     THEN /\ lastAlert' = Some([msg |-> "Pick a player for ... first.",
                                arg |-> Head(FirstMissing)])
          /\ UNCHANGED futureResults
     ELSE IF chosenTeam = Null
     THEN /\ lastAlert' = Some([msg |-> "Pick a team before simulating.",
                                arg |-> ""])
          /\ UNCHANGED futureResults
     ELSE /\ lastAlert' = None
          /\ \E team \in CustomTeams(pickTeamsForEra(futureEra), chosenTeam) :
               futureResults' = Some([customName |-> name, team |-> team,
                                      position |-> playerPosition])
  /\ UNCHANGED <<players, activeAttributes, playerName, playerPosition,
                 futureEra, customPeak, teamOptions, chosenTeam, teamField,
                 modal>>
  /\ UNCHANGED <<careerVars, matchVars, serverVars, clientVars>>

\* ------------------------------------------------------------------------
\* Career simulation (simulateCareer): pure parts
\* ------------------------------------------------------------------------
\* Math.round(a / b) for a >= 0, b > 0: halves round up
RoundDiv(a, b) == (2 * a + b) \div (2 * b)

GamesPerSeason == 82
MaxCareerYears == 20
leagueSize == 150
LeaderboardSize == 10
AllProSize == 15

\* const totalGames = Math.max(0, Math.round(num(peak.g)))
TotalGames(g) == Max(0, g)

\* totalYears without the upper clamp
TotalYearsUncapped(nGames) ==
  LET r == RoundDiv(nGames, GamesPerSeason)
  IN  Max(IF r = 0 THEN 1 ELSE r, 1)

\* const totalYears = clamp(Math.round(totalGames / 82) || 1, 1, 20)
TotalYears(nGames) ==
  LET r == RoundDiv(nGames, GamesPerSeason)
  IN  clamp(IF r = 0 THEN 1 ELSE r, 1, MaxCareerYears)

\* a split of the games that leaves the remainder out
GamesWithoutRemainder(nGames, nYears, i) == nGames \div nYears

\* gamesBySeason[i], i counted from 0
GamesBySeason(nGames, nYears, i) ==
  LET baseGames == nGames \div nYears
      remainderGames == nGames - baseGames * nYears
  IN  baseGames + (IF i < remainderGames THEN 1 ELSE 0)

\* positionAdjustments (future.js), in hundredths
positionAdjustments(pos) ==
  LET p == ToLower(pos) IN
  IF StrIncludes(p, WordPoint)
  THEN [pts |-> 0, ast |-> 70, reb |-> -50, stl |-> 0, blk |-> 0]
  ELSE IF StrIncludes(p, WordShooting)
  THEN [pts |-> 150, ast |-> 0, reb |-> -50, stl |-> 0, blk |-> 0]
  ELSE IF StrIncludes(p, WordCenter)
  THEN [pts |-> -150, ast |-> -100, reb |-> 300, stl |-> 0, blk |-> 0]
  ELSE [pts |-> 0, ast |-> 0, reb |-> 0, stl |-> 0, blk |-> 0]

\* careerFactorByYear.  gNorm is kept as gN = 1200 * gNorm, and the floors,
\* the ceiling and the factor are in 1/120000 (CurveOne is 1.0).
CurveOne == 120000
LongevityLow == 300
LongevitySpan == 1200

GNorm(g) == clamp(g - LongevityLow, 0, LongevitySpan)
PeakStart(g) == (2 * LongevitySpan + 2 * GNorm(g) + LongevitySpan \div 2) \div LongevitySpan
PeakLength(g) == (LongevitySpan + 3 * GNorm(g) + LongevitySpan \div 2) \div LongevitySpan
PeakEnd(g, nYears) == Min(nYears, PeakStart(g) + PeakLength(g) - 1)
StartFloor(g) == 90000 + 8 * GNorm(g)
PeakCeil(g) == 129600 + 12 * GNorm(g)
DeclineFloor(g) == 98400 + 5 * GNorm(g)

\* the three branches of careerFactorByYear
RiseSegment(yearIndex, g, nYears) ==
  StartFloor(g)
    + ((yearIndex - 1) * (CurveOne - StartFloor(g))) \div Max(1, PeakStart(g) - 1)

PeakSegment(yearIndex, g, nYears) ==
  CurveOne
    + ((yearIndex - PeakStart(g)) * (PeakCeil(g) - CurveOne))
        \div Max(1, PeakEnd(g, nYears) - PeakStart(g))

DeclineSegment(yearIndex, g, nYears) ==
  PeakCeil(g)
    - ((yearIndex - PeakEnd(g, nYears)) * (PeakCeil(g) - DeclineFloor(g)))
        \div Max(1, nYears - PeakEnd(g, nYears))

careerFactorByYear(yearIndex, g, nYears) ==
  IF yearIndex < PeakStart(g) THEN RiseSegment(yearIndex, g, nYears)
  ELSE IF yearIndex <= PeakEnd(g, nYears) THEN PeakSegment(yearIndex, g, nYears)
  ELSE DeclineSegment(yearIndex, g, nYears)

\* a draw r of randn(), in hundredths, scaled by a coefficient given in
\* hundredths: randn() * 1.8 is Noise(r, 180), in hundredths
Noise(r, coef) == (r * coef) \div 100

\* const yearVariance = clamp(0.95 + randn() * 0.06, 0.85, 1.1), in 1/10000
YearVariance(r) == clamp(9500 + 6 * r, 8500, 11000)

\* const factor = curve * yearVariance, in 1/10000
SeasonFactor(yearIndex, g, nYears, r) ==
  ((careerFactorByYear(yearIndex, g, nYears) \div 12) * YearVariance(r)) \div 10000

\* the custom player's stat without its cap
CustomStatUncapped(base, r, coef, factor, cap) ==
  Max(((base + Noise(r, coef)) * factor) \div 10000, 0)

\* clamp((base + randn() * coef) * factor, 0, cap)
CustomStat(base, r, coef, factor, cap) ==
  clamp(((base + Noise(r, coef)) * factor) \div 10000, 0, cap)

\* const per = clamp(10 + pts*0.55 + ast*0.45 + reb*0.35 + stl*1.3 + blk*1.2, 8, 32)
CustomPer(pts, ast, reb, stl, blk) ==
  clamp((100000 + 55 * pts + 45 * ast + 35 * reb + 130 * stl + 120 * blk) \div 100,
        800, 3200)

\* const score = pts*0.55 + reb*0.30 + ast*0.25 + per*0.15 + stl*0.4 + blk*0.4
CustomScore(pts, ast, reb, stl, blk, per) ==
  55 * pts + 30 * reb + 25 * ast + 15 * per + 40 * stl + 40 * blk

\* const scoreL = ptsL*0.55 + rebL*0.30 + astL*0.25 + perL*0.15
LeagueScore(pts, ast, reb, stl, blk, per) ==
  55 * pts + 30 * reb + 25 * ast + 15 * per

\* the custom player's season entry; nc holds the five randn() draws
CustomLine(cust, factor, nc) ==
  LET pts == CustomStat(cust.base.pts, nc.pts, 180, factor, 4500)
      ast == CustomStat(cust.base.ast, nc.ast, 70, factor, 1500)
      reb == CustomStat(cust.base.reb, nc.reb, 90, factor, 1800)
      stl == CustomStat(cust.base.stl, nc.stl, 25, factor, 350)
      blk == CustomStat(cust.base.blk, nc.blk, 25, factor, 350)
      per == CustomPer(pts, ast, reb, stl, blk)
  IN  [name |-> cust.name, team |-> cust.team, pts |-> pts, ast |-> ast,
       reb |-> reb, stl |-> stl, blk |-> blk, per |-> per,
       score |-> CustomScore(pts, ast, reb, stl, blk, per), isCustom |-> TRUE]

\* a league player's season entry; nl holds the six randn() draws
LeagueLine(pl, nl) ==
  LET pts == clamp(pl.base.pts + Noise(nl.pts, 200), 0, 4000)
      ast == clamp(pl.base.ast + Noise(nl.ast, 100), 0, 1500)
      reb == clamp(pl.base.reb + Noise(nl.reb, 120), 0, 1800)
      stl == clamp(pl.base.stl + Noise(nl.stl, 35), 0, 350)
      blk == clamp(pl.base.blk + Noise(nl.blk, 35), 0, 400)
      per == clamp(pl.base.per + Noise(nl.per, 250), 500, 3200)
  IN  [name |-> pl.name, team |-> pl.team, pts |-> pts, ast |-> ast,
       reb |-> reb, stl |-> stl, blk |-> blk, per |-> per,
       score |-> LeagueScore(pts, ast, reb, stl, blk, per), isCustom |-> FALSE]

\* seasonPlayers: the custom player first, then the league in its order
SeasonPlayers(cust, lg, factor, nc, nl) ==
  <<CustomLine(cust, factor, nc)>> \o [i \in 1..Len(lg) |-> LeagueLine(lg[i], nl[i])]

\* an insertion that puts an entry before the entries of equal key
RECURSIVE SortInsertBefore(_, _)
SortInsertBefore(sorted, e) ==
  IF sorted = <<>> THEN <<e>>
  ELSE IF Head(sorted).key > e.key
       THEN <<Head(sorted)>> \o SortInsertBefore(Tail(sorted), e)
       ELSE <<e>> \o sorted

\* [...arr].sort((a, b) => key(b) - key(a)): a stable descending sort.
\* keys[i] is the key of arr[i]; an entry goes behind every entry whose key
\* is not smaller, so equal keys keep the order of arr.
RECURSIVE SortInsert(_, _)
SortInsert(sorted, e) ==
  IF sorted = <<>> THEN <<e>>
  ELSE IF Head(sorted).key >= e.key
       THEN <<Head(sorted)>> \o SortInsert(Tail(sorted), e)
       ELSE <<e>> \o sorted

RECURSIVE SortAll(_, _)
SortAll(todo, sorted) ==
  IF todo = <<>> THEN sorted
  ELSE SortAll(Tail(todo), SortInsert(sorted, Head(todo)))

SortDesc(arr, keys) ==
  LET tagged == [i \in 1..Len(arr) |-> [val |-> arr[i], key |-> keys[i]]]
      sorted == SortAll(tagged, <<>>)
  IN  [k \in 1..Len(arr) |-> sorted[k].val]

\* arr.slice(0, n)
Slice(arr, n) == SubSeq(arr, 1, Min(n, Len(arr)))

Field(arr, f) == [i \in 1..Len(arr) |-> arr[i][f]]

\* const seasonByScore = [...seasonPlayers].sort((a, b) => b.score - a.score)
SeasonByScore(sp) == SortDesc(sp, Field(sp, "score"))

\* { ...pl, delta }: the entry with its improvement added
WithDelta(pl, d) ==
  [k \in DOMAIN pl \cup {"delta"} |-> IF k = "delta" THEN d ELSE pl[k]]

\* improv with the custom player's delta taken against the league proxy
\* instead of lastYearScore
ImprovAgainstProxy(sp, prevScore, mr) ==
  LET withDelta == [i \in 1..Len(sp) |->
                      WithDelta(sp[i], IF sp[i].isCustom THEN 0 ELSE mr[i - 1])]
  IN  SortDesc(withDelta, Field(withDelta, "delta"))

\* improv: every entry with its delta against a prior score; mr[i] is the
\* value of Math.random() * 3 drawn for league entry i, in 1/10000
Improv(sp, prevScore, mr) ==
  LET withDelta == [i \in 1..Len(sp) |->
                      WithDelta(sp[i], IF sp[i].isCustom
                                       THEN sp[i].score - prevScore
                                       ELSE mr[i - 1])]
  IN  SortDesc(withDelta, Field(withDelta, "delta"))

\* Object.entries(teamTotals): the teams in order of first appearance, each
\* with the sum of its players' scores
RECURSIVE TeamOrder(_, _)
TeamOrder(sp, seen) ==
  IF sp = <<>> THEN seen
  ELSE TeamOrder(Tail(sp),
                 IF Includes(seen, Head(sp).team) THEN seen
                 ELSE Append(seen, Head(sp).team))

RECURSIVE SumSeq(_)
SumSeq(s) == IF Len(s) = 0 THEN 0 ELSE Head(s) + SumSeq(Tail(s))

TeamTotal(sp, team) ==
  SumSeq(Field(SelectSeq(sp, LAMBDA pl : pl.team = team), "score"))

TeamEntries(sp) ==
  LET order == TeamOrder(sp, <<>>)
      entries == [i \in 1..Len(order) |->
                    [team |-> order[i], total |-> TeamTotal(sp, order[i])]]
  IN  SortDesc(entries, Field(entries, "total"))

\* teamWins[team] = Math.round(20 + pct * 40), pct = (score - min) / span;
\* a score of 1.0 is 10000
TeamWins(entries, team) ==
  LET minScore == entries[Len(entries)].total
      maxScore == entries[1].total
      span == Max(10000, maxScore - minScore)
      e == CHOOSE x \in Range(entries) : x.team = team
  IN  (2 * 40 * (e.total - minScore) + 41 * span) \div (2 * span)

\* const finalsMVP = [...champCandidates].sort((a, b) => b.score - a.score)[0]
FinalsMVP(sp, champTeam) ==
  LET champCandidates == SelectSeq(sp, LAMBDA pl : pl.team = champTeam)
  IN  SortDesc(champCandidates, Field(champCandidates, "score"))[1]

\* const allPro = [...].sort((a, b) => b.per - a.per).slice(0, 15).map(p => p.name)
AllPro(sp) == Field(Slice(SortDesc(sp, Field(sp, "per")), AllProSize), "name")

\* the awards of one season
SeasonAwards(sp, yearIndex, prevScore, mr) ==
  LET byScore == SeasonByScore(sp)
      entries == TeamEntries(sp)
  IN  [MVP |-> byScore[1],
       ROY |-> IF yearIndex = 1 THEN Some(byScore[1]) ELSE None,
       MIP |-> IF yearIndex > 1 THEN Some(Improv(sp, prevScore, mr)[1]) ELSE None,
       Champion |-> entries[1].team,
       FinalsMVP |-> FinalsMVP(sp, entries[1].team)]

Bump(b) == IF b THEN 1 ELSE 0

\* the update with Rookie of the Year counted from the season's MVP
UpdateAwardsRookieByMvp(aw, sa, allPro, cust) ==
  [MVP |-> aw.MVP + Bump(sa.MVP.name = cust.name),
   ROY |-> aw.ROY + Bump(sa.MVP.name = cust.name),
   MIP |-> aw.MIP + Bump(sa.MIP # None /\ sa.MIP[1].name = cust.name),
   FinalsMVP |-> aw.FinalsMVP + Bump(sa.FinalsMVP.name = cust.name),
   Champs |-> aw.Champs + Bump(sa.Champion = cust.team),
   AllPro |-> aw.AllPro + Bump(Includes(allPro, cust.name))]

\* the award tallies after one more season
UpdateAwards(aw, sa, allPro, cust) ==
  [MVP |-> aw.MVP + Bump(sa.MVP.name = cust.name),
   ROY |-> aw.ROY + Bump(sa.ROY # None /\ sa.ROY[1].name = cust.name),
   MIP |-> aw.MIP + Bump(sa.MIP # None /\ sa.MIP[1].name = cust.name),
   FinalsMVP |-> aw.FinalsMVP + Bump(sa.FinalsMVP.name = cust.name),
   Champs |-> aw.Champs + Bump(sa.Champion = cust.team),
   AllPro |-> aw.AllPro + Bump(Includes(allPro, cust.name))]

\* const topPts = [...seasonPlayers].sort((a, b) => b.pts - a.pts).slice(0, 10)
TopBy(sp, f) == Slice(SortDesc(sp, Field(sp, f)), LeaderboardSize)

\* the record pushed to seasons
SeasonRecord(yearIndex, sp, sa, games) ==
  [year |-> yearIndex,
   custom |-> [name |-> sp[1].name, pts |-> sp[1].pts, ast |-> sp[1].ast,
               reb |-> sp[1].reb, stl |-> sp[1].stl, blk |-> sp[1].blk,
               per |-> sp[1].per, team |-> sp[1].team,
               wins |-> TeamWins(TeamEntries(sp), sp[1].team), games |-> games],
   leaderboards |-> [topPts |-> TopBy(sp, "pts"), topAst |-> TopBy(sp, "ast"),
                     topReb |-> TopBy(sp, "reb"), topPer |-> TopBy(sp, "per")],
   awards |-> sa]

\* careerAvgScore > threshold, threshold in whole points: the average is
\* sum(score * games) / (sum(games) || 1), scores in 1/10000
CareerScoreSum(ss) ==
  SumSeq([i \in 1..Len(ss) |->
            (55 * ss[i].custom.pts + 30 * ss[i].custom.reb + 25 * ss[i].custom.ast
               + 15 * ss[i].custom.per) * ss[i].custom.games])

TotalPlayed(ss) ==
  LET played == SumSeq([i \in 1..Len(ss) |-> ss[i].custom.games])
  IN  IF played = 0 THEN 1 ELSE played

CareerAvgAbove(ss, threshold) ==
  CareerScoreSum(ss) > threshold * 10000 * TotalPlayed(ss)

\* the decision with the All-Pro threshold of its second clause one lower
HallOfFameLoose(aw, ss) ==
  \/ aw.MVP >= 1 /\ CareerAvgAbove(ss, 20)
  \/ aw.AllPro >= 5 /\ CareerAvgAbove(ss, 18)
  \/ aw.Champs >= 2 /\ aw.AllPro >= 3 /\ CareerAvgAbove(ss, 17)
  \/ aw.MVP >= 4 /\ aw.AllPro >= 7

\* const hof = ...
HallOfFame(aw, ss) ==
  \/ aw.MVP >= 1 /\ CareerAvgAbove(ss, 20)
  \/ aw.AllPro >= 6 /\ CareerAvgAbove(ss, 18)
  \/ aw.Champs >= 2 /\ aw.AllPro >= 3 /\ CareerAvgAbove(ss, 17)
  \/ aw.MVP >= 4 /\ aw.AllPro >= 7

\* ------------------------------------------------------------------------
\* Career simulation: the call
\* ------------------------------------------------------------------------
StatKeys == {"pts", "ast", "reb", "stl", "blk"}
LeagueStatKeys == {"pts", "ast", "reb", "stl", "blk", "per"}

\* a league entry built from a data set row and the team drawn for it
LeagueEntry(p, team) ==
  [name |-> p.Name, team |-> team,
   base |-> [pts |-> p.PTS, ast |-> p.AST, reb |-> p.TRB, stl |-> p.STL,
             blk |-> p.BLK, per |-> p.PER, fg |-> p.FG,
             ath |-> computeAthleticism(p.PER, p.FG, p.TRB, p.G, p.Height)]]

\* const custom
BuildCustom(customName, customPosition, peak, team) ==
  LET posAdj == positionAdjustments(customPosition)
  IN  [name |-> customName, team |-> team, isCustom |-> TRUE,
       base |-> [pts |-> peak.pts + posAdj.pts, ast |-> peak.ast + posAdj.ast,
                 reb |-> peak.reb + posAdj.reb, stl |-> peak.stl + posAdj.stl,
                 blk |-> peak.blk + posAdj.blk, g |-> peak.g, ath |-> peak.ath,
                 height |-> peak.height]]

NoAwards == [MVP |-> 0, ROY |-> 0, MIP |-> 0, AllPro |-> 0, Champs |-> 0, FinalsMVP |-> 0]

\* the state at the loop test before the first season: a is the arguments,
\* lg the league sampled from the pool, team the custom player's team
CareerStart(a, lg, team) ==
  /\ pc = "loop"
  /\ args = a
  /\ custom = BuildCustom(a.customName, a.customPosition, a.peak, team)
  /\ league = lg
  /\ totalGames = TotalGames(a.peak.g)
  /\ totalYears = TotalYears(TotalGames(a.peak.g))
  /\ year = 1
  /\ seasons = <<>>
  /\ awards = NoAwards
  /\ lastYearScore = None
  /\ output = None

\* one iteration of the season loop.  yv is the randn() draw of yearVariance,
\* nc the custom player's five draws, nl[i] the six draws of league entry i,
\* mr[i] the Math.random() * 3 of league entry i in the MIP proxy
SeasonIteration(yv, nc, nl, mr) ==
  /\ pc = "loop"
  /\ year <= totalYears
  /\ LET factor == SeasonFactor(year, custom.base.g, totalYears, yv)
         games == GamesBySeason(totalGames, totalYears, year - 1)
         sp == SeasonPlayers(custom, league, factor, nc, nl)
         prev == IF lastYearScore = None THEN 0 ELSE lastYearScore[1]
         sa == SeasonAwards(sp, year, prev, mr)
     IN  /\ awards' = UpdateAwards(awards, sa, AllPro(sp), custom)
         /\ lastYearScore' = Some(sp[1].score)
         /\ seasons' = Append(seasons, SeasonRecord(year, sp, sa, games))
  /\ year' = year + 1
  /\ UNCHANGED <<pc, args, custom, league, totalGames, totalYears, output,
                 firstOutput>>
  /\ UNCHANGED <<uiVars, matchVars, serverVars, clientVars>>

\* the loop has ended: the Hall of Fame decision and the return
ReturnCareer ==
  /\ pc = "loop"
  /\ year > totalYears
  /\ output' = Some([seasons |-> seasons, awards |-> awards,
                     hof |-> HallOfFame(awards, seasons),
                     customName |-> custom.name, totalGames |-> totalGames,
                     totalYears |-> totalYears])
  /\ pc' = "done"
  /\ UNCHANGED <<args, custom, league, totalGames, totalYears, year, seasons,
                 awards, lastYearScore, firstOutput>>
  /\ UNCHANGED <<uiVars, matchVars, serverVars, clientVars>>

\* simulateCareer is called again with the same arguments over the same pool
SimulateAgain ==
  /\ pc = "done"
  /\ firstOutput = None
  /\ firstOutput' = output
  /\ pc' = "loop"
  /\ year' = 1
  /\ seasons' = <<>>
  /\ awards' = NoAwards
  /\ lastYearScore' = None
  /\ output' = None
  /\ UNCHANGED <<args, custom, league, totalGames, totalYears>>
  /\ UNCHANGED <<uiVars, matchVars, serverVars, clientVars>>

\* the page while a career specification runs
PageIdle ==
  /\ activeAttributes = computeActiveAttributes(TRUE)
  /\ playerName = <<>>
  /\ playerPosition = SmallForward
  /\ futureEra = EraAll
  /\ eraFilter = EraAll
  /\ customPeak = NoPicks
  /\ teamOptions = <<>>
  /\ chosenTeam = Null
  /\ teamField = ""
  /\ modal = "hidden"
  /\ futureResults = None
  /\ lastAlert = None

\* the cache keys a request may carry, '' for none
CacheKeys == {"", "k1"}

\* the backend as started
ServerIdle ==
  /\ serverNow = 0
  /\ geminiDisabledUntil = None
  /\ bioCache = [k \in CacheKeys |-> None]
  /\ requests = <<>>

\* no career rendered yet: no buttons, nothing pending, no metric computed
ClientIdle ==
  /\ seasonStats = <<>>
  /\ teamImpact = <<>>
  /\ lastSimulationOutput = <<>>
  /\ aiButtons = <<>>
  /\ statusFetches = {}
  /\ aiModalCalls = <<>>

\* the draft game page as loaded
GameIdle ==
  /\ gameMode = "attribute"
  /\ participants = <<>>
  /\ simulationResult = None
  /\ gameAlert = None
  /\ storyCalls = <<>>

\* no match has been rendered
MatchIdle ==
  /\ matchLog = <<>>
  /\ rngState = None
  /\ GameIdle

\* no call of simulateCareer is running
CareerIdle ==
  /\ pc = "idle"
  /\ args = None
  /\ custom = None
  /\ league = <<>>
  /\ totalGames = 0
  /\ totalYears = 0
  /\ year = 0
  /\ seasons = <<>>
  /\ awards = NoAwards
  /\ lastYearScore = None
  /\ output = None
  /\ firstOutput = None

ZeroNoise == [k \in StatKeys |-> 0]
ZeroLeagueNoise(lg) == [i \in 1..Len(lg) |-> [k \in LeagueStatKeys |-> 0]]
ZeroMip(lg) == [i \in 1..Len(lg) |-> 0]

\* the custom player's name, "Al"
NameAl == <<65, 108>>

Peak(pts, ast, reb, stl, blk, g) ==
  [pts |-> pts, ast |-> ast, reb |-> reb, stl |-> stl, blk |-> blk, g |-> g,
   ath |-> 0, height |-> 78]

Args(customName, customPosition, peak, teamOverride) ==
  [customName |-> customName, customPosition |-> customPosition, peak |-> peak,
   teamOverride |-> teamOverride]

\* ------------------------------------------------------------------------
\* Career length: every longevity up to MaxLongevity, no league, no noise
\* ------------------------------------------------------------------------
MaxLongevity == 1800

InitYears ==
  /\ PageIdle
  /\ MatchIdle
  /\ ServerIdle
  /\ ClientIdle
  /\ players = <<>>
  /\ firstOutput = None
  /\ \E g \in 0..MaxLongevity :
       CareerStart(Args(NameAl, SmallForward, Peak(2000, 500, 500, 100, 100, g), "Lakers"),
                   <<>>, "Lakers")

NextYears ==
  \/ SeasonIteration(0, ZeroNoise, <<>>, <<>>)
  \/ ReturnCareer

SpecYears == InitYears /\ [][NextYears]_vars

\* ------------------------------------------------------------------------
\* One or two seasons of the custom player alone, every draw of the season
\* taking its lowest or its highest value
\* ------------------------------------------------------------------------
\* randn() lies in [-1, 1): the draws explored, in hundredths
RandnExtremes == {-100, 100}

\* baselines: nothing picked up, the highest career averages of the data set,
\* and values above every cap
PeakNone == Peak(0, 0, 0, 0, 0, 0)
PeakBest == Peak(3010, 1120, 2290, 270, 350, 164)
PeakHuge == Peak(6000, 50, 2400, 500, 500, 164)

SeasonPeaks == {PeakNone, PeakBest, PeakHuge}
SeasonPositions == {PointGuard, ShootingGuard, SmallForward, Center}

InitSeason ==
  /\ PageIdle
  /\ MatchIdle
  /\ ServerIdle
  /\ ClientIdle
  /\ players = <<>>
  /\ firstOutput = None
  /\ \E peak \in SeasonPeaks, pos \in SeasonPositions :
       CareerStart(Args(NameAl, pos, peak, "Lakers"), <<>>, "Lakers")

NextSeason ==
  \/ \E yv \in RandnExtremes, nc \in [StatKeys -> RandnExtremes] :
       SeasonIteration(yv, nc, <<>>, <<>>)
  \/ ReturnCareer

SpecSeason == InitSeason /\ [][NextSeason]_vars

\* ------------------------------------------------------------------------
\* Two seasons against a league of one or two players
\* ------------------------------------------------------------------------
\* league rows: a rival whose steals and blocks are high, and a player who
\* has the custom player's name
RowRival == Row(<<82, 105>>, 1992, SmallForward, 900, 2700, 800, 500, 2600, 480, 200, 150, 79)
RowTwin == Row(NameAl, 1996, Center, 700, 2900, 1100, 300, 2900, 520, 60, 120, 84)

AwardPools ==
  {<<>>, <<RowRival>>, <<RowTwin>>, <<RowRival, RowTwin>>, <<RowTwin, RowRival>>}

PeakAllRound == Peak(2500, 600, 700, 100, 50, 164)

\* the same averages over three seasons, the last one past the peak
PeakDecline == Peak(2500, 600, 700, 100, 50, 246)

\* the careers explored: two seasons in every pool, three in the empty one
AwardCareers ==
  {<<pool, PeakAllRound>> : pool \in AwardPools} \cup {<<<< >>, PeakDecline>>}

\* the league sampled from a pool: every row with one of the teams drawn
Leagues(pool, teams) ==
  {[i \in 1..Len(pool) |-> LeagueEntry(pool[i], t[i])] :
     t \in [1..Len(pool) -> {teams[idx + 1] : idx \in RandomIndex(Len(teams))}]}

\* league draws explored: points and PER at an extreme, the rest at zero noise
LeagueDraws ==
  {[k \in LeagueStatKeys |-> IF k = "pts" THEN a ELSE IF k = "per" THEN b ELSE 0] :
     a \in RandnExtremes, b \in RandnExtremes}

\* Math.random() * 3 lies in [0, 3): the values explored, in 1/10000
MipDraws == {0, 29999}

InitAwards ==
  /\ PageIdle
  /\ MatchIdle
  /\ ServerIdle
  /\ ClientIdle
  /\ firstOutput = None
  /\ \E c \in AwardCareers :
       /\ players = c[1]
       /\ \E lg \in Leagues(c[1], pickTeamsForEra(EraAll)) :
            CareerStart(Args(NameAl, SmallForward, c[2], "Lakers"), lg, "Lakers")

NextAwards ==
  \/ \E yv \in RandnExtremes,
        nl \in [1..Len(league) -> LeagueDraws],
        mr \in [1..Len(league) -> MipDraws] :
       SeasonIteration(yv, ZeroNoise, nl, mr)
  \/ ReturnCareer

SpecAwards == InitAwards /\ [][NextAwards]_vars

\* ------------------------------------------------------------------------
\* The same call made twice
\* ------------------------------------------------------------------------
InitAgain ==
  /\ PageIdle
  /\ MatchIdle
  /\ ServerIdle
  /\ ClientIdle
  /\ players = <<RowRival>>
  /\ firstOutput = None
  /\ \E lg \in Leagues(<<RowRival>>, pickTeamsForEra(EraAll)) :
       CareerStart(Args(NameAl, SmallForward, PeakAllRound, "Lakers"), lg, "Lakers")

NextAgain ==
  \/ \E yv \in RandnExtremes, nl \in [1..Len(league) -> LeagueDraws] :
       SeasonIteration(yv, ZeroNoise, nl, ZeroMip(league))
  \/ ReturnCareer
  \/ SimulateAgain

SpecAgain == InitAgain /\ [][NextAgain]_vars

\* ------------------------------------------------------------------------
\* The Hall of Fame decision: the loop has ended with MaxHofSeasons seasons
\* or fewer behind it.  The seasons are given by their entries: the custom
\* player's line, and league entries that decide who won what.
\* ------------------------------------------------------------------------
MaxHofSeasons == 7

\* custom lines <<pts, ast, reb>> whose composite score is 15.0, 17.0,
\* 17.0005, 18.0, 18.002, 20.0, 20.001 and 25.0
HofLines == {<<1800, 0, 600>>, <<2300, 300, 0>>, <<1754, 500, 800>>,
             <<1912, 500, 800>>, <<1862, 600, 800>>, <<2663, 300, 200>>,
             <<2284, 500, 700>>, <<3069, 400, 800>>}

\* the lines of the odd and of the even seasons
HofLinePairs ==
  {<<l, l>> : l \in HofLines}
    \cup {<<<<3069, 400, 800>>, <<1800, 0, 600>>>>,
          <<<<1800, 0, 600>>, <<3069, 400, 800>>>>}

HofCustomLine(l) ==
  LET per == CustomPer(l[1], l[2], l[3], 0, 0)
  IN  [name |-> NameAl, team |-> "Lakers", pts |-> l[1], ast |-> l[2],
       reb |-> l[3], stl |-> 0, blk |-> 0, per |-> per,
       score |-> CustomScore(l[1], l[2], l[3], 0, 0, per), isCustom |-> TRUE]

HofEntry(name, team, pts, ast, reb, per) ==
  LeagueLine([name |-> name, team |-> team,
              base |-> [pts |-> pts, ast |-> ast, reb |-> reb, stl |-> 0,
                        blk |-> 0, per |-> per]],
             [k \in LeagueStatKeys |-> 0])

\* the entries of a season in which the custom player is (mvp) or is not the
\* MVP, plays (champ) or does not play for the champion, is (allPro) or is
\* not among the top 15 by PER: a rival who outscores everybody, two bench
\* players who together outscore the custom player, fifteen players of PER 32
HofSeasonPlayers(l, mvp, champ, allPro) ==
  LET other == IF champ THEN "Lakers" ELSE "Celtics"
  IN  <<HofCustomLine(l)>>
        \o (IF ~mvp THEN <<HofEntry(<<82, 105>>, other, 4000, 1500, 1800, 3200)>>
            ELSE IF ~champ
            THEN <<HofEntry(<<66, 110>>, other, 2000, 0, 0, 2000),
                   HofEntry(<<66, 111>>, other, 2000, 0, 0, 2000)>>
            ELSE <<>>)
        \o (IF ~allPro
            THEN [i \in 1..AllProSize |-> HofEntry(<<69, 48 + i>>, other, 0, 0, 0, 3200)]
            ELSE <<>>)

\* the state of the loop after n seasons, the custom player being MVP in the
\* first k.MVP of them, champion in the first k.Champs, All-Pro in the first
\* k.AllPro
RECURSIVE HofLoop(_, _, _, _)
HofLoop(n, g, k, pair) ==
  IF n = 0
  THEN [seasons |-> <<>>, awards |-> NoAwards, last |-> 0]
  ELSE LET before == HofLoop(n - 1, g, k, pair)
           l == IF n % 2 = 1 THEN pair[1] ELSE pair[2]
           sp == HofSeasonPlayers(l, n <= k.MVP, n <= k.Champs, n <= k.AllPro)
           sa == SeasonAwards(sp, n, before.last, [i \in 1..(Len(sp) - 1) |-> 0])
           cust == BuildCustom(NameAl, SmallForward, Peak(0, 0, 0, 0, 0, g), "Lakers")
           games == GamesBySeason(TotalGames(g), TotalYears(TotalGames(g)), n - 1)
       IN  [seasons |-> Append(before.seasons, SeasonRecord(n, sp, sa, games)),
            awards |-> UpdateAwards(before.awards, sa, AllPro(sp), cust),
            last |-> sp[1].score]

InitHof ==
  /\ PageIdle
  /\ MatchIdle
  /\ ServerIdle
  /\ ClientIdle
  /\ players = <<>>
  /\ firstOutput = None
  /\ \E n \in 1..MaxHofSeasons, pair \in HofLinePairs,
        k \in [MVP : {0, 1, 3, 4}, Champs : {1, 2}, AllPro : {2, 3, 5, 6, 7}] :
     \E extra \in IF pair[1] = pair[2] THEN {0} ELSE {0, 1} :
       LET g == GamesPerSeason * n + extra
           end == HofLoop(n, g, k, pair)
       IN  /\ k.MVP <= n /\ k.Champs <= n /\ k.AllPro <= n
           /\ pc = "loop"
           /\ args = Args(NameAl, SmallForward, Peak(pair[1][1], pair[1][2], pair[1][3], 0, 0, g),
                          "Lakers")
           /\ custom = BuildCustom(NameAl, SmallForward,
                                   Peak(pair[1][1], pair[1][2], pair[1][3], 0, 0, g), "Lakers")
           /\ league = <<>>
           /\ totalGames = TotalGames(g)
           /\ totalYears = TotalYears(TotalGames(g))
           /\ year = n + 1
           /\ seasons = end.seasons
           /\ awards = end.awards
           /\ lastYearScore = Some(end.last)
           /\ output = None

NextHof == ReturnCareer

SpecHof == InitHof /\ [][NextHof]_vars

\* ------------------------------------------------------------------------
\* Leaderboards: a league of up to twelve players whose averages tie with
\* each other and, at the caps, with the custom player; no league noise
\* ------------------------------------------------------------------------
BoardPts == <<3000, 1000, 2500, 2500, 2000, 2000, 2000, 1500, 4200, 4100, 500, 2500>>
BoardReb == <<800, 2000, 1900, 600, 600, 1800, 400, 1200, 1200, 300, 1800, 700>>

BoardRoster ==
  [i \in 1..12 |->
     Row(<<66, 64 + i>>, 1990, SmallForward, 800, BoardPts[i], BoardReb[i],
         200 + 100 * ((3 * i) % 5), 1500 + 300 * (i % 4), 480, 100, 50, 79)]

\* the league sampled: n rows of the roster from its k-th on, in that order
BoardLeague(k, n) ==
  [i \in 1..n |-> LeagueEntry(BoardRoster[((i + k - 2) % 12) + 1], "Celtics")]

BoardSizes == {3, 9, 10, 12}

InitBoards ==
  /\ PageIdle
  /\ MatchIdle
  /\ ServerIdle
  /\ ClientIdle
  /\ players = BoardRoster
  /\ firstOutput = None
  /\ \E k \in 1..12, n \in BoardSizes, peak \in {PeakAllRound, PeakHuge} :
       CareerStart(Args(NameAl, SmallForward, peak, "Lakers"), BoardLeague(k, n), "Lakers")

NextBoards ==
  \/ \E yv \in RandnExtremes :
       SeasonIteration(yv, ZeroNoise, ZeroLeagueNoise(league), ZeroMip(league))
  \/ ReturnCareer

SpecBoards == InitBoards /\ [][NextBoards]_vars

\* ------------------------------------------------------------------------
\* Career builder page: specification
\* ------------------------------------------------------------------------
\* the data set explored on the page: one row, of the 1990s
PageRows ==
  <<Row(<<77, 74>>, 1995, SmallForward, 1072, 3010, 620, 530, 2790, 497, 230,
        80, 78)>>

PagePositions == {Center}

\* the outcomes of generateTeamOptions' draws explored on the page
TeamDrawOutcomes == {FALSE}

InitPage ==
  /\ CareerIdle
  /\ MatchIdle
  /\ ServerIdle
  /\ ClientIdle
  /\ players = PageRows
  /\ activeAttributes \in {computeActiveAttributes(b) : b \in BOOLEAN}
  /\ playerName = <<>>
  /\ playerPosition = SmallForward
  /\ futureEra = EraAll
  /\ eraFilter = EraAll
  /\ customPeak = NoPicks
  /\ teamOptions = <<>>
  /\ chosenTeam = Null
  /\ teamField = ""
  /\ modal = "hidden"
  /\ futureResults = None
  /\ lastAlert = None

NextPage ==
  \/ \E n \in NameInputs : TypeName(n)
  \/ \E e \in Eras : ChangeEra(e)
  \/ \E pos \in PagePositions : ChangePosition(pos)
  \/ \E a \in Range(ATTRIBUTES), p \in Range(players) : SelectPlayer(a, p)
  \/ \E hi \in TeamDrawOutcomes : openTeamModal(hi)
  \/ \E i \in {1, MaxTeamOptions} : SelectTeam(i)
  \/ CloseModal
  \/ resetPlayerBuilder
  \/ simulateFutureOnclick

SpecPage == InitPage /\ [][NextPage]_vars

\* ------------------------------------------------------------------------
\* Matchup resolver (script.js): the seeded generator.  A 32-bit word is a
\* pair <<hi, lo>> of 16-bit halves.
\* ------------------------------------------------------------------------
Half == 65536

\* a ^ b on 16 bits: bit by bit on four bits, XorNibble being the table of it,
\* and four bits at a time on sixteen
RECURSIVE XorBits(_, _)
XorBits(a, b) ==
  IF a = 0 THEN b
  ELSE IF b = 0 THEN a
  ELSE 2 * XorBits(a \div 2, b \div 2) + (((a % 2) + (b % 2)) % 2)

XorNibble == [a \in 0..15 |-> [b \in 0..15 |-> XorBits(a, b)]]

Xor(a, b) ==
  XorNibble[a % 16][b % 16]
    + 16 * XorNibble[(a \div 16) % 16][(b \div 16) % 16]
    + 256 * XorNibble[(a \div 256) % 16][(b \div 256) % 16]
    + 4096 * XorNibble[a \div 4096][b \div 4096]

XorWord(x, y) == <<Xor(x[1], y[1]), Xor(x[2], y[2])>>

\* x << 13, x >>> 17 and x << 5 on 32 bits
Shl13(x) == <<((x[1] % 8) * 8192 + x[2] \div 8) % Half, (x[2] % 8) * 8192>>

Shr17(x) == <<0, x[1] \div 2>>

Shl5(x) == <<((x[1] % 2048) * 32 + x[2] \div 2048) % Half, (x[2] % 2048) * 32>>

\* Math.imul(hash, 16777619): 16777619 = 2^24 + 403
FnvPrimeLow == 403

Imul(hash) ==
  LET t == hash[2] * FnvPrimeLow
  IN  <<(hash[1] * FnvPrimeLow + t \div Half + (hash[2] % 256) * 256) % Half,
        t % Half>>

\* 2166136261 = 0x811C9DC5
FnvOffset == <<33052, 40389>>

RECURSIVE FnvFold(_, _)
FnvFold(hash, str) ==
  IF str = <<>> THEN hash
  ELSE CHOOSE r \in {FnvFold(h, Tail(str)) :
                       h \in {Imul(<<hash[1], Xor(hash[2], Head(str))>>)}} : TRUE

\* seedFromNames: the string is a, "::", b
seedFromNames(a, b) == FnvFold(FnvOffset, a \o <<58, 58>> \o b)

\* a generator that goes on from the s the generator before it ended with
rngCarriedOver(seed) == IF rngState = None THEN seed ELSE rngState[1]

\* rngFromSeed: the state s of the new generator
rngFromSeed(seed) == seed

\* one call of the generator: the new s, which is also the numerator of the
\* value returned, s / 4294967296
RngStep(s) ==
  LET s1 == XorWord(s, Shl13(s))
      s2 == XorWord(s1, Shr17(s1))
  IN  XorWord(s2, Shl5(s2))

\* the states of the generator after 1, 2, .. n calls
RECURSIVE RngDraws(_, _)
RngDraws(s, n) ==
  IF n = 0 THEN <<>> ELSE LET t == RngStep(s) IN <<t>> \o RngDraws(t, n - 1)

\* Math.floor(rng() * n) for the draw u
FloorTimes(u, n) == (u[1] * n + (u[2] * n) \div Half) \div Half

\* ------------------------------------------------------------------------
\* Matchup resolver: entities and scores.  An entity's pts, ast, reb and per
\* are hundredths, its fg thousandths, its impact thousandths; a data row's
\* Height is whole inches.  An attribute-mode entity has no impact and no
\* players, which the code reads as 0 and [].
\* ------------------------------------------------------------------------
UpperCode(c) == IF c >= 97 /\ c <= 122 THEN c - 32 ELSE c
ToUpper(s) == [i \in 1..Len(s) |-> UpperCode(s[i])]

PosPG == <<80, 71>>  \* "PG"
PosSG == <<83, 71>>  \* "SG"
PosSF == <<83, 70>>  \* "SF"
PosPF == <<80, 70>>  \* "PF"
PosC == <<67>>       \* "C"

\* positionAdjustments of script.js, hundredths
gamePositionAdjustments(pos) ==
  LET p == ToLower(pos)
  IN  IF StrIncludes(p, WordPoint) THEN [pts |-> 0, ast |-> 70, reb |-> -50]
      ELSE IF StrIncludes(p, WordShooting) THEN [pts |-> 150, ast |-> 0, reb |-> -50]
      ELSE IF StrIncludes(p, WordCenter) THEN [pts |-> -150, ast |-> -100, reb |-> 300]
      ELSE [pts |-> 0, ast |-> 0, reb |-> 0]

\* buildPlayerFromAttributes: the participant's name, position and the data
\* rows picked for shooting, passing, rebounding and longevity
buildPlayerFromAttributes(name, position, shooting, passing, rebounding, longevity) ==
  LET posAdj == gamePositionAdjustments(position)
  IN  [name |-> name,
       pts |-> shooting.PTS + posAdj.pts,
       ast |-> passing.AST + posAdj.ast,
       reb |-> rebounding.TRB + posAdj.reb,
       per |-> IF shooting.PER # 0 THEN shooting.PER
               ELSE IF passing.PER # 0 THEN passing.PER
               ELSE rebounding.PER,
       fg |-> shooting.FG,
       g |-> longevity.G,
       impact |-> 0,
       players |-> <<>>]

\* playerImpact, thousandths
playerImpact(pl) ==
  LET pos == ToUpper(pl.Position)
  IN  IF StrIncludes(pos, PosPG) THEN 16 * pl.AST + 6 * pl.PTS + 3 * pl.PER
      ELSE IF StrIncludes(pos, PosSG) THEN 16 * pl.PTS + 5 * pl.AST + 3 * pl.PER
      ELSE IF StrIncludes(pos, PosSF) \/ StrIncludes(pos, PosPF)
      THEN 16 * pl.PER + 6 * pl.PTS + 4 * pl.TRB
      ELSE IF StrIncludes(pos, PosC) THEN 14 * pl.TRB + 200 * pl.Height + 4 * pl.PER
      ELSE 10 * pl.PTS + 4 * pl.AST + 4 * pl.TRB + 3 * pl.PER

\* buildTeamFromDraft: the team's name and the drafted rows; per and fg are
\* averages, exact for rosters whose totals the roster size divides
buildTeamFromDraft(name, playersArr) ==
  LET count == IF Len(playersArr) = 0 THEN 1 ELSE Len(playersArr)
  IN  [name |-> name,
       pts |-> SumSeq(Field(playersArr, "PTS")),
       ast |-> SumSeq(Field(playersArr, "AST")),
       reb |-> SumSeq(Field(playersArr, "TRB")),
       per |-> SumSeq(Field(playersArr, "PER")) \div count,
       fg |-> SumSeq(Field(playersArr, "FG")) \div count,
       g |-> 0,
       impact |-> SumSeq([i \in 1..Len(playersArr) |-> playerImpact(playersArr[i])]),
       players |-> playersArr]

\* a score of 1.0
ScoreOne == 4000000

\* scoreFromStats: base and impactBoost in 1/100000, the result in 1/4000000
scoreFromStats(s, isTeam) ==
  LET pace == IF isTeam THEN 110 ELSE 100
      base == 10 * (100 * s.pts + 40 * s.ast + 25 * s.reb + 30 * s.per + 2 * s.fg)
      impactBoost == IF isTeam THEN 35 * s.impact ELSE 0
      raw == base + impactBoost
  IN  Max(60 * ScoreOne,
          Min(140 * ScoreOne, raw * (IF isTeam THEN 16 ELSE 25) + pace * ScoreOne))

\* Math.round(base + (rng() - 0.5) * 8) for the draw u: the floor of
\* base - 3.5 + s / 2^29, s = u[1] * 65536 + u[2].  With r = s mod 2^29 the
\* fractions carry iff frac / ScoreOne + r / 2^29 >= 1, that is (both sides
\* times ScoreOne * 2^29 / 2^24) iff r * 15625 / 65536 >= (ScoreOne - frac) * 32
RoundWithVariance(base, u) ==
  LET shifted == base - (7 * ScoreOne) \div 2
      whole == shifted \div ScoreOne
      frac == shifted % ScoreOne
      carry == (u[1] % 8192) * 15625 + (u[2] * 15625) \div Half
                 >= (ScoreOne - frac) * 32
  IN  whole + u[1] \div 8192 + Bump(carry)

\* ------------------------------------------------------------------------
\* Matchup resolver: the story of a match
\* ------------------------------------------------------------------------
Abs(x) == IF x < 0 THEN -x ELSE x

\* topDiffs: the differences in thousandths, largest magnitude first
topDiffs(a, b) ==
  LET diffs == <<[label |-> "Scoring", diff |-> 10 * (a.pts - b.pts)],
                 [label |-> "Playmaking", diff |-> 10 * (a.ast - b.ast)],
                 [label |-> "Rebounding", diff |-> 10 * (a.reb - b.reb)],
                 [label |-> "Efficiency", diff |-> 10 * (a.per - b.per)],
                 [label |-> "Shooting", diff |-> a.fg - b.fg]>>
  IN  SortDesc(diffs, [i \in 1..5 |-> Abs(diffs[i].diff)])

\* teamRoleMetrics, hundredths
RoleSum(rows, wanted, field, heightWeight) ==
  SumSeq([i \in 1..Len(rows) |->
            IF \E w \in wanted : StrIncludes(ToUpper(rows[i].Position), w)
            THEN rows[i][field] + heightWeight * rows[i].Height ELSE 0])

teamRoleMetrics(team) ==
  [pgPlaymaking |-> RoleSum(team.players, {PosPG}, "AST", 0),
   sgScoring |-> RoleSum(team.players, {PosSG}, "PTS", 0),
   wingEfficiency |-> RoleSum(team.players, {PosSF, PosPF}, "PER", 0),
   centerBoards |-> RoleSum(team.players, {PosC}, "TRB", 10)]

\* a factor label is the pair of its stem and its last word
buildTeamFactors(a, b) ==
  LET diffs == Slice(topDiffs(a, b), 2)
      aRoles == teamRoleMetrics(a)
      bRoles == teamRoleMetrics(b)
      roles == <<[label |-> "PG playmaking",
                  score |-> Abs(aRoles.pgPlaymaking - bRoles.pgPlaymaking)],
                 [label |-> "SG scoring",
                  score |-> Abs(aRoles.sgScoring - bRoles.sgScoring)],
                 [label |-> "Wing efficiency",
                  score |-> Abs(aRoles.wingEfficiency - bRoles.wingEfficiency)],
                 [label |-> "Center rebounding",
                  score |-> Abs(aRoles.centerBoards - bRoles.centerBoards)]>>
      roleDiffs == SortDesc(roles, Field(roles, "score"))
      combined == Field(diffs, "label") \o <<roleDiffs[1].label>>
  IN  [leader |-> [i \in 1..Len(combined) |-> <<combined[i], "edge">>],
       trailer |-> [i \in 1..Len(combined) |-> <<combined[i], "gap">>]]

buildPlayerFactors(a, b) ==
  LET diffs == Field(Slice(topDiffs(a, b), 3), "label")
  IN  [leader |-> [i \in 1..Len(diffs) |-> <<diffs[i], "advantage">>],
       trailer |-> [i \in 1..Len(diffs) |-> <<diffs[i], "deficit">>]]

\* shuffleInPlace: us are the draws it consumes, one for each i from the last
\* index down to 1; indices are the code's, from 0
Swap(arr, i, j) ==
  [k \in 1..Len(arr) |-> IF k = i + 1 THEN arr[j + 1]
                         ELSE IF k = j + 1 THEN arr[i + 1] ELSE arr[k]]

RECURSIVE ShuffleFrom(_, _, _)
ShuffleFrom(arr, i, us) ==
  IF i <= 0 THEN arr
  ELSE ShuffleFrom(Swap(arr, i, FloorTimes(Head(us), i + 1)), i - 1, Tail(us))

shuffleInPlace(us, arr) == ShuffleFrom(arr, Len(arr) - 1, us)

\* the number of draws shuffleInPlace makes
ShuffleDraws(arr) == Max(Len(arr) - 1, 0)

\* a line of the story: the template it is built from, the index of the
\* template in its list, and the names, numbers and keys filled in
Line(tpl, idx, names, nums, keys) ==
  [tpl |-> tpl, idx |-> idx, names |-> names, nums |-> nums, keys |-> keys]

\* pick(rng, options) for the draw u, options being one of the five lists of
\* eight lines about who
LinesPerList == 8

pick(u, list, who) == Line(list, FloorTimes(u, LinesPerList), <<who>>, <<>>, <<>>)

\* buildPlayerMoments: three moments, each a draw for the player and a draw
\* for one of the twenty actions
MomentCount == 3
ActionCount == 20

buildPlayerMoments(us, a, b) ==
  LET all == [i \in 1..Len(a.players) |-> [team |-> a.name, p |-> a.players[i]]]
               \o [i \in 1..Len(b.players) |-> [team |-> b.name, p |-> b.players[i]]]
  IN  IF all = <<>> THEN <<>>
      ELSE [i \in 1..MomentCount |->
              LET choice == all[FloorTimes(us[2 * i - 1], Len(all)) + 1]
              IN  Line("moment", FloorTimes(us[2 * i], ActionCount),
                       <<choice.team, choice.p.Name>>, <<>>, <<>>)]

\* the number of draws buildPlayerMoments makes
MomentDraws(a, b, isTeam) ==
  IF isTeam /\ Len(a.players) + Len(b.players) > 0 THEN 2 * MomentCount ELSE 0

\* the number of draws a story makes: two variances, the two shuffles, the
\* moments and the picked lines
StoryDraws(a, b, detail, isTeam) ==
  LET factors == IF isTeam THEN buildTeamFactors(a, b) ELSE buildPlayerFactors(a, b)
  IN  2 + ShuffleDraws(factors.leader) + ShuffleDraws(factors.trailer)
        + MomentDraws(a, b, isTeam) + (IF detail = "light" THEN 2 ELSE 5)

\* the two scores as the rounding left them, no side bumped
TieLeft(roundedA, roundedB, baseA, baseB) == <<roundedA, roundedB>>

\* the tie-break of simulateGameStory: equal rounded scores bump one side
TieBreak(roundedA, roundedB, baseA, baseB) ==
  IF roundedA = roundedB
  THEN IF baseA >= baseB THEN <<roundedA + 1, roundedB>> ELSE <<roundedA, roundedB + 1>>
  ELSE <<roundedA, roundedB>>

\* the k-th of the player moments, if there is one
Moment(playerMoments, k) ==
  IF Len(playerMoments) >= k THEN <<playerMoments[k]>> ELSE <<>>

\* the lines of simulateGameStory for the detail asked for; us are the draws
\* of the picked lines in order
StoryLines(a, b, detail, leader, trailer, keysLine, strugglesLine, final, playerMoments, us) ==
  LET tipoff == Line("Tipoff", 0, <<a.name, b.name>>, <<>>, <<>>)
  IN  IF detail = "light"
      THEN <<tipoff, pick(us[1], "startLines", leader.name)>>
             \o Moment(playerMoments, 1)
             \o <<Line("Halftime leads", 0, <<leader.name>>, <<>>, <<>>),
                  pick(us[2], "thirdLines", trailer.name)>>
             \o Moment(playerMoments, 2)
             \o <<keysLine, final>>
      ELSE <<tipoff, pick(us[1], "startLines", leader.name)>>
             \o Moment(playerMoments, 1)
             \o <<pick(us[2], "answerLines", trailer.name),
                  pick(us[3], "halftimeLines", leader.name),
                  pick(us[4], "thirdLines", trailer.name)>>
             \o Moment(playerMoments, 2)
             \o <<pick(us[5], "closeLines", leader.name)>>
             \o (IF detail = "medium" THEN <<>>
                 ELSE <<Line("Final possessions", 0, <<leader.name>>, <<>>, <<>>)>>)
             \o <<keysLine, strugglesLine, final>>

\* simulateGameStory once the scores are settled: the shuffled keys, the
\* moments and the lines; us are the draws after the two variances
StoryAfterScores(a, b, detail, isTeam, us, scoreA, scoreB, factors) ==
  LET leader == IF scoreA >= scoreB THEN a ELSE b
      trailer == IF scoreA >= scoreB THEN b ELSE a
      nLeader == ShuffleDraws(factors.leader)
      afterKeys == nLeader + ShuffleDraws(factors.trailer)
      afterMoments == afterKeys + MomentDraws(a, b, isTeam)
      leaderKeys == Slice(shuffleInPlace(SubSeq(us, 1, nLeader), factors.leader), 3)
      trailerKeys ==
        Slice(shuffleInPlace(SubSeq(us, nLeader + 1, afterKeys), factors.trailer), 3)
      playerMoments ==
        IF isTeam
        THEN buildPlayerMoments(SubSeq(us, afterKeys + 1, afterMoments), a, b)
        ELSE <<>>
  IN  StoryLines(a, b, detail, leader, trailer,
                 Line("Keys for", 0, <<leader.name>>, <<>>, leaderKeys),
                 Line("Struggles for", 0, <<trailer.name>>, <<>>, trailerKeys),
                 Line("Final", 0, <<a.name, b.name>>, <<scoreA, scoreB>>, <<>>),
                 playerMoments, SubSeq(us, afterMoments + 1, Len(us)))

\* simulateGameStory from the two base scores on
StoryFromBases(a, b, detail, isTeam, us, baseA, baseB, roundedA, roundedB) ==
  LET broken == TieBreak(roundedA, roundedB, baseA, baseB)
      factors == IF isTeam THEN buildTeamFactors(a, b) ELSE buildPlayerFactors(a, b)
  IN  [scoreA |-> broken[1], scoreB |-> broken[2],
       lines |-> StoryAfterScores(a, b, detail, isTeam, SubSeq(us, 3, Len(us)),
                                  broken[1], broken[2], factors),
       baseA |-> baseA, baseB |-> baseB,
       roundedA |-> roundedA, roundedB |-> roundedB,
       s |-> us[Len(us)]]

\* the body of simulateGameStory, us being the draws of its generator in
\* order.  Besides scoreA, scoreB and lines the record holds what the call
\* computed on the way: the two base scores, the two rounded scores before
\* the tie-break, and the generator's s when the call returned.
StoryFromDraws(a, b, detail, isTeam, us) ==
  LET baseA == scoreFromStats(a, isTeam)
      baseB == scoreFromStats(b, isTeam)
  IN  StoryFromBases(a, b, detail, isTeam, us, baseA, baseB,
                     RoundWithVariance(baseA, us[1]), RoundWithVariance(baseB, us[2]))

\* simulateGameStory: the generator is made from the hash of the two names
simulateGameStory(a, b, detail, isTeam) ==
  LET s0 == rngFromSeed(seedFromNames(a.name, b.name))
  IN  CHOOSE r \in {StoryFromDraws(a, b, detail, isTeam, us) :
                      us \in {RngDraws(s0, StoryDraws(a, b, detail, isTeam))}} : TRUE

\* what a story returns to its caller
Story(r) == [scoreA |-> r.scoreA, scoreB |-> r.scoreB, lines |-> r.lines]

\* renderMatch of simulateMatchup: the story of a against b, and the winner
MaxMatches == 3

renderMatch(a, b, detail, isTeam) ==
  /\ Len(matchLog) < MaxMatches
  /\ \E r \in {simulateGameStory(a, b, detail, isTeam)} :
         /\ matchLog' = Append(matchLog,
                               [a |-> a, b |-> b, detail |-> detail, isTeam |-> isTeam,
                                story |-> Story(r),
                                baseA |-> r.baseA, baseB |-> r.baseB,
                                roundedA |-> r.roundedA, roundedB |-> r.roundedB,
                                winner |-> IF r.scoreA >= r.scoreB THEN "a" ELSE "b"])
         /\ rngState' = Some(r.s)
  /\ UNCHANGED <<uiVars, careerVars, gameVars, serverVars, clientVars>>

\* ------------------------------------------------------------------------
\* Matchup resolver: specification.  Up to MaxMatches matches are rendered,
\* between custom players (attribute mode, which always asks for the full
\* story) or between drafted teams (team mode, any detail).
\* ------------------------------------------------------------------------
NameBo == <<66, 111>>
NameCy == <<67, 121>>
RowMJ == PageRows[1]

\* the participants of an attribute-mode game, their position one of the
\* select's values; Al and Cy are built from the same picks
PlayerEntities ==
  {buildPlayerFromAttributes(NameAl, PosPG, RowRival, RowRival, RowRival, RowRival),
   buildPlayerFromAttributes(NameCy, PosC, RowRival, RowRival, RowRival, RowRival),
   buildPlayerFromAttributes(NameBo, PosSG, RowTwin, RowRival, RowMJ, RowMJ)}

RowJo == Row(<<74, 111>>, 1990, PosPG, 900, 1800, 400, 900, 2000, 460, 150, 20, 75)
RowLu == Row(<<76, 117>>, 1991, PosC, 800, 1500, 1200, 200, 1900, 540, 60, 180, 84)
RowMo == Row(<<77, 111>>, 1993, PosSG, 1000, 2600, 500, 400, 2300, 450, 120, 30, 78)
RowKi == Row(<<75, 105>>, 1994, PosSF, 950, 2200, 700, 400, 2200, 480, 100, 60, 80)

TeamEntities ==
  {buildTeamFromDraft(<<75, 105, 110, 103, 115>>, <<RowJo, RowLu>>),  \* "Kings"
   buildTeamFromDraft(<<74, 97, 122, 122>>, <<RowMo, RowKi>>)}        \* "Jazz"

MatchDetails == {"light", "medium", "full"}

InitMatch ==
  /\ PageIdle
  /\ CareerIdle
  /\ MatchIdle
  /\ ServerIdle
  /\ ClientIdle
  /\ players = <<>>

\* a match of two participants, who differ in name: an attribute-mode game is
\* told in full, a team game in the detail selected
NextMatch ==
  \/ \E a \in PlayerEntities : \E b \in PlayerEntities \ {a} :
       renderMatch(a, b, "full", FALSE)
  \/ \E a \in TeamEntities, detail \in MatchDetails : \E b \in TeamEntities \ {a} :
       renderMatch(a, b, detail, TRUE)

SpecMatch == InitMatch /\ [][NextMatch]_vars

\* ------------------------------------------------------------------------
\* Draft game page (script.js): the participants' cards, Start Game, the
\* picks and Play New Game.  A card's attributes and team are kept as the
\* entries of the object in insertion order; a teamName of null and one of ''
\* are read alike everywhere (p.teamName || ...) and are both <<>>.
\* ------------------------------------------------------------------------
GameAttributes ==
  <<"shooting", "passing", "rebounding", "longevity", "athleticism", "height">>

GameModes == {"attribute", "team"}

CardPositions == {PosPG, PosSG, PosSF, PosPF, PosC}

\* `Participant ${i + 1}`, i counted from 1 here
ParticipantName(i) == <<80, 97, 114, 116, 105, 99, 105, 112, 97, 110, 116, 32, 48 + i>>

NewCard(i) ==
  [name |-> ParticipantName(i), position |-> PosPG, attributes |-> <<>>,
   team |-> <<>>, teamName |-> <<>>]

HasEntry(entries, key) == \E k \in 1..Len(entries) : entries[k].key = key

\* obj[key] = e
SetEntry(entries, key, e) ==
  IF HasEntry(entries, key)
  THEN [k \in 1..Len(entries) |-> IF entries[k].key = key THEN e ELSE entries[k]]
  ELSE Append(entries, e)

\* selectPlayer on the cards: the card of participant i with the pick made
PickedCard(card, key, p, isTeam) ==
  [name |-> card.name, position |-> card.position, teamName |-> card.teamName,
   attributes |-> IF isTeam THEN card.attributes
                  ELSE SetEntry(card.attributes, key,
                                [key |-> key, source |-> p.Name, player |-> p]),
   team |-> IF isTeam THEN SetEntry(card.team, key, [key |-> key, player |-> p])
            ELSE card.team]

WithCard(cards, i, card) == [k \in 1..Len(cards) |-> IF k = i THEN card ELSE cards[k]]

\* p.attributes.key?.player, whose fields the code reads as 0 when undefined
BlankRow == Row(<<>>, 0, <<>>, 0, 0, 0, 0, 0, 0, 0, 0, 0)

PickedRow(card, key) ==
  IF HasEntry(card.attributes, key)
  THEN (CHOOSE e \in Range(card.attributes) : e.key = key).player
  ELSE BlankRow

\* p.teamName || p.name
EntityName(card) == IF card.teamName = <<>> THEN card.name ELSE card.teamName

\* entrants.map of simulateMatchup: the entity of a card
EntityOf(card, mode) ==
  IF mode = "attribute"
  THEN buildPlayerFromAttributes(EntityName(card), card.position,
                                 PickedRow(card, "shooting"), PickedRow(card, "passing"),
                                 PickedRow(card, "rebounding"), PickedRow(card, "longevity"))
  ELSE buildTeamFromDraft(EntityName(card),
                          [k \in 1..Len(card.team) |-> card.team[k].player])

\* a renderMatch that returns the entrant who scored less
MatchEntryLoser(r, i, j, round) ==
  [round |-> round, a |-> i, b |-> j, scoreA |-> r.scoreA, scoreB |-> r.scoreB,
   baseA |-> r.baseA, baseB |-> r.baseB,
   winner |-> IF r.scoreA >= r.scoreB THEN j ELSE i]

\* one call of renderMatch, entrants i and j of ents: what the story gave
MatchEntry(r, i, j, round) ==
  [round |-> round, a |-> i, b |-> j, scoreA |-> r.scoreA, scoreB |-> r.scoreB,
   baseA |-> r.baseA, baseB |-> r.baseB,
   winner |-> IF r.scoreA >= r.scoreB THEN i ELSE j]

PlayMatch(ents, i, j, round, detail, isTeam) ==
  CHOOSE e \in {MatchEntry(r, i, j, round) :
                  r \in {simulateGameStory(ents[i], ents[j], detail, isTeam)}} : TRUE

\* simulateGameStory depends on its arguments alone: the games of all the
\* pairings of ents, worked out once for the rounds to look up
Games(ents, detail, isTeam) ==
  {PlayMatch(ents, pr[1], pr[2], 0, detail, isTeam) :
     pr \in {q \in (1..Len(ents)) \X (1..Len(ents)) : q[1] # q[2]}}

\* renderMatch of entrants i and j in a round
GameOf(games, i, j, round) ==
  CHOOSE e \in {[round |-> round, a |-> g.a, b |-> g.b, scoreA |-> g.scoreA,
                 scoreB |-> g.scoreB, baseA |-> g.baseA, baseB |-> g.baseB,
                 winner |-> g.winner] : g \in {h \in games : h.a = i /\ h.b = j}} : TRUE

\* the for loop over the pairs of a round
PlayRound(games, current, round) ==
  [k \in 1..(Len(current) \div 2) |->
     GameOf(games, current[2 * k - 1], current[2 * k], round)]

RemoveAt(arr, k) == [i \in 1..(Len(arr) - 1) |-> IF i < k THEN arr[i] ELSE arr[i + 1]]

\* a round without the bye branch
ByeDrawsNever(current) == {[bye |-> <<>>, rest |-> current]}

\* the bye of a round: Math.floor(Math.random() * current.length) may be any
\* index when the length is odd
ByeDraws(current) ==
  IF Len(current) % 2 = 1
  THEN {[bye |-> <<current[k]>>, rest |-> RemoveAt(current, k)] : k \in 1..Len(current)}
  ELSE {[bye |-> <<>>, rest |-> current]}

\* the while loop of the tournament from a round on: every way it can go, as
\* the calls of renderMatch in order, the byes and the entrant left at the end
RECURSIVE Bracket(_, _, _)
ByeAt(bye, round) == [k \in 1..Len(bye) |-> [round |-> round, entrant |-> bye[k]]]

BracketAfter(games, bye, played, round) ==
  {[calls |-> played \o o.calls, byes |-> ByeAt(bye, round) \o o.byes,
    champion |-> o.champion] :
     o \in Bracket(games, bye \o [k \in 1..Len(played) |-> played[k].winner], round + 1)}

Bracket(games, current, round) ==
  IF Len(current) <= 1
  THEN {[calls |-> <<>>, byes |-> <<>>, champion |-> current[1]]}
  ELSE UNION {UNION {BracketAfter(games, d.bye, played, round) :
                       played \in {PlayRound(games, d.rest, round)}} :
                d \in ByeDraws(current)}

\* entrants.slice().sort(() => 0.5 - Math.random()): any order
Shuffles(n) == {[k \in 1..n |-> f[k]] : f \in Permutations(1..n)}

NeedTwo == "Need at least 2 participants to simulate a matchup."

\* the text returned: its header lines, the final score of each match and the
\* Champion line, by entity name
ResultText(ents, o, title) ==
  [title |-> title,
   matches |-> [k \in 1..Len(o.calls) |->
                  [round |-> o.calls[k].round,
                   a |-> ents[o.calls[k].a].name, b |-> ents[o.calls[k].b].name,
                   scoreA |-> o.calls[k].scoreA, scoreB |-> o.calls[k].scoreB]],
   byes |-> [k \in 1..Len(o.byes) |->
               [round |-> o.byes[k].round, name |-> ents[o.byes[k].entrant].name]],
   champion |-> IF title = "Tournament Bracket" THEN Some(ents[o.champion].name) ELSE None]

Outcome(ents, o, title) ==
  [text |-> ResultText(ents, o, title), calls |-> o.calls, champion |-> o.champion]

\* simulateMatchup: every value it can return, with the calls of renderMatch
\* behind it
MatchupOutcomes(ents, detail, isTeam) ==
  IF Len(ents) = 2
  THEN {Outcome(ents, [calls |-> <<m>>, byes |-> <<>>, champion |-> m.winner], "Match") :
          m \in {PlayMatch(ents, 1, 2, 0, detail, isTeam)}}
  ELSE {Outcome(ents, o, "Tournament Bracket") :
          o \in UNION {UNION {Bracket(games, order, 1) : order \in Shuffles(Len(ents))} :
                         games \in {Games(ents, detail, isTeam)}}}

simulateMatchup(cards, mode, detail) ==
  IF Len(cards) < 2
  THEN {[text |-> NeedTwo, calls |-> <<>>, champion |-> 0]}
  ELSE UNION {MatchupOutcomes(ents, detail, mode = "team") :
                ents \in {[k \in 1..Len(cards) |-> EntityOf(cards[k], mode)]}}

\* a test of the team names that does not trim them
MissingUntrimmed(cards) == \E k \in 1..Len(cards) : cards[k].teamName = <<>>

\* participants.some(p => !String(p.teamName || '').trim())
MissingTeamName(cards) == \E k \in 1..Len(cards) : Trim(cards[k].teamName) = <<>>

NameAlert == "Please enter a team name for each participant."

MaxParticipants == 4

startGame(mode, n) ==
  /\ gameMode' = mode
  /\ participants' = [i \in 1..n |-> NewCard(i)]
  /\ gameAlert' = None
  /\ storyCalls' = <<>>
  /\ UNCHANGED <<simulationResult, matchLog, rngState, uiVars, careerVars,
               serverVars, clientVars>>

selectPlayer(i, key, p, isTeam) ==
  /\ i \in 1..Len(participants)
  /\ isTeam = (gameMode = "team")
  /\ participants' = WithCard(participants, i, PickedCard(participants[i], key, p, isTeam))
  /\ gameAlert' = None
  /\ storyCalls' = <<>>
  /\ UNCHANGED <<gameMode, simulationResult, matchLog, rngState, uiVars, careerVars,
               serverVars, clientVars>>

\* onchange of a card's Team Name input, which team mode renders
ChangeTeamName(i, v) ==
  /\ gameMode = "team"
  /\ i \in 1..Len(participants)
  /\ participants' = WithCard(participants, i,
                              [name |-> participants[i].name,
                               position |-> participants[i].position,
                               attributes |-> participants[i].attributes,
                               team |-> participants[i].team, teamName |-> v])
  /\ gameAlert' = None
  /\ storyCalls' = <<>>
  /\ UNCHANGED <<gameMode, simulationResult, matchLog, rngState, uiVars, careerVars,
               serverVars, clientVars>>

\* onchange of a card's Position select
ChangeCardPosition(i, pos) ==
  /\ i \in 1..Len(participants)
  /\ participants' = WithCard(participants, i,
                              [name |-> participants[i].name, position |-> pos,
                               attributes |-> participants[i].attributes,
                               team |-> participants[i].team,
                               teamName |-> participants[i].teamName])
  /\ gameAlert' = None
  /\ storyCalls' = <<>>
  /\ UNCHANGED <<gameMode, simulationResult, matchLog, rngState, uiVars, careerVars,
               serverVars, clientVars>>

\* Play New Game, the detail select at detail
runDeterministicSim(detail) ==
  /\ IF gameMode = "team" /\ MissingTeamName(participants)
     THEN /\ gameAlert' = Some(NameAlert)
          /\ storyCalls' = <<>>
          /\ UNCHANGED simulationResult
     ELSE \E o \in simulateMatchup(participants, gameMode,
                                   IF gameMode = "attribute" THEN "full" ELSE detail) :
            /\ simulationResult' = Some(o.text)
            /\ storyCalls' = o.calls
            /\ gameAlert' = None
  /\ UNCHANGED <<gameMode, participants, matchLog, rngState, uiVars, careerVars,
               serverVars, clientVars>>

\* ------------------------------------------------------------------------
\* Draft game page: specification.  The page starts with every card drafted
\* in full, the first two attribute-mode cards from the same picks; cards are
\* then re-picked, renamed or started afresh, and games played.
\* ------------------------------------------------------------------------
CardRows == <<RowRival, RowRival, RowTwin, RowMJ>>

TeamRows == <<<<RowJo, RowLu>>, <<RowMo, RowKi>>, <<RowMo, RowLu>>, <<RowJo, RowKi>>>>

TeamNames ==
  <<<<75, 105, 110, 103, 115>>, <<74, 97, 122, 122>>, <<72, 101, 97, 116>>,
    <<78, 101, 116, 115>>>>

RECURSIVE PickAll(_, _, _)
PickAll(card, keys, p) ==
  IF keys = <<>> THEN card
  ELSE PickAll(PickedCard(card, Head(keys), p, FALSE), Tail(keys), p)

\* the card of participant i drafted in full, the rows and team names taken
\* in turn
DraftedCard(mode, i) ==
  LET t == ((i - 1) % Len(CardRows)) + 1
  IN  IF mode = "attribute"
      THEN PickAll(NewCard(i), GameAttributes, CardRows[t])
      ELSE [name |-> ParticipantName(i), position |-> PosPG, attributes |-> <<>>,
            team |-> <<[key |-> "PG", player |-> TeamRows[t][1]],
                       [key |-> "C", player |-> TeamRows[t][2]]>>,
            teamName |-> IF i = t THEN TeamNames[t] ELSE TeamNames[t] \o <<48 + i>>]

\* the games started afresh, the cards a user edits, what is typed for a team
\* name, and the rows picked
StartInputs == {<<"attribute", 2>>, <<"team", 3>>}
EditedCards == {1, 2}
TeamNameInputs == {<<>>, <<32, 32>>}
PickInputs == {<<"shooting", RowMJ, FALSE>>, <<"PG", RowMo, TRUE>>}

InitGame ==
  /\ PageIdle
  /\ CareerIdle
  /\ players = <<>>
  /\ matchLog = <<>>
  /\ rngState = None
  /\ ServerIdle
  /\ ClientIdle
  /\ simulationResult = None
  /\ gameAlert = None
  /\ storyCalls = <<>>
  /\ gameMode \in GameModes
  /\ \E n \in 1..MaxParticipants :
       participants = [i \in 1..n |-> DraftedCard(gameMode, i)]

NextGame ==
  \/ \E st \in StartInputs : startGame(st[1], st[2])
  \/ \E i \in EditedCards, pk \in PickInputs : selectPlayer(i, pk[1], pk[2], pk[3])
  \/ \E i \in EditedCards, v \in TeamNameInputs : ChangeTeamName(i, v)
  \/ \E detail \in MatchDetails : runDeterministicSim(detail)

SpecGame == InitGame /\ [][NextGame]_vars

\* tournaments alone: attribute-mode pages of three to five drafted cards, on
\* which Simulate is pressed again and again
ByeEntrants == {3, 4, 5}

InitByes ==
  /\ PageIdle
  /\ CareerIdle
  /\ players = <<>>
  /\ matchLog = <<>>
  /\ rngState = None
  /\ ServerIdle
  /\ ClientIdle
  /\ simulationResult = None
  /\ gameAlert = None
  /\ storyCalls = <<>>
  /\ gameMode = "attribute"
  /\ \E n \in ByeEntrants :
       participants = [i \in 1..n |-> DraftedCard(gameMode, i)]

NextByes == \E detail \in MatchDetails : runDeterministicSim(detail)

SpecByes == InitByes /\ [][NextByes]_vars

\* ------------------------------------------------------------------------
\* Draft game page, the positions: an attribute-mode game of two cards drafted
\* from the same picks, whose positions are changed between games
\* ------------------------------------------------------------------------
InitCards ==
  /\ PageIdle
  /\ CareerIdle
  /\ players = <<>>
  /\ matchLog = <<>>
  /\ rngState = None
  /\ ServerIdle
  /\ ClientIdle
  /\ simulationResult = None
  /\ gameAlert = None
  /\ storyCalls = <<>>
  /\ gameMode = "attribute"
  /\ participants = [i \in 1..2 |-> DraftedCard("attribute", i)]

NextCards ==
  \/ \E i \in EditedCards, pos \in CardPositions : ChangeCardPosition(i, pos)
  \/ \E i \in EditedCards, pk \in PickInputs : selectPlayer(i, pk[1], pk[2], pk[3])
  \/ \E detail \in MatchDetails : runDeterministicSim(detail)

SpecCards == InitCards /\ [][NextCards]_vars

\* ------------------------------------------------------------------------
\* Biography backend (backend/careerPayloadBuilder.js) and its client
\* (aiClient.js).  Time is in ticks, local midnight at the multiples of
\* DayLength.  A request is handled up to its await of the provider in one
\* step and, when the provider answers, to its response in another; several
\* requests may be awaiting at once.  The text a provider returns is named by
\* the number of the request whose call returned it.
\* ------------------------------------------------------------------------
DayLength == 2
MaxTime == 3
MaxRequests == 3

Providers == {"gemini", "ollama"}

\* the careerPayload of a request: which of the careers simulated in the
\* browser for one name and position it was built from
CareerPayloads == {1, 2}

\* isGeminiEnabledNow
isGeminiEnabledNow ==
  IF geminiDisabledUntil = None THEN TRUE ELSE serverNow > geminiDisabledUntil[1]

\* d.setHours(24, 0, 0, 0): the midnight that follows the time t
NextMidnight(t) == (t \div DayLength + 1) * DayLength

\* disableGeminiForToday
disableGeminiForToday == Some(NextMidnight(serverNow))

\* res.status(http).json(...)
Response(http, status, text, fromCache) ==
  [http |-> http, status |-> status, text |-> text, fromCache |-> fromCache]

\* a request as received: the handler answers at once or awaits the provider
Request(provider, careerPayload, cacheKey, response) ==
  [provider |-> provider, careerPayload |-> careerPayload, cacheKey |-> cacheKey,
   receivedAt |-> serverNow,
   called |-> response = None, upstream |-> None, response |-> response,
   answeredAt |-> IF response = None THEN None ELSE Some(serverNow)]

\* app.post('/api/ai/career') up to the await of callGemini or callOllama;
\* the browser submits the careers in the order they were simulated
PostCareer(provider, careerPayload, cacheKey) ==
  /\ Len(requests) < MaxRequests
  /\ \A k \in 1..Len(requests) : requests[k].careerPayload <= careerPayload
  /\ requests' =
       Append(requests,
              Request(provider, careerPayload, cacheKey,
                      IF cacheKey # "" /\ bioCache[cacheKey] # None
                      THEN Some(Response(200, "success", bioCache[cacheKey], TRUE))
                      ELSE IF provider = "gemini" /\ ~isGeminiEnabledNow
                      THEN Some(Response(403, "disabled", None, FALSE))
                      ELSE None))
  /\ UNCHANGED <<serverNow, geminiDisabledUntil, bioCache>>
  /\ UNCHANGED <<uiVars, careerVars, matchVars, clientVars>>

\* what the provider's API may answer: its HTTP status
GeminiAnswers == {200, 429, 503, 500}
OllamaAnswers == {200, 500}

Answered(req, http, response) ==
  [provider |-> req.provider, careerPayload |-> req.careerPayload,
   cacheKey |-> req.cacheKey, receivedAt |-> req.receivedAt,
   called |-> req.called, upstream |-> Some(http), response |-> Some(response),
   answeredAt |-> Some(serverNow)]

\* the rest of the handler of request i once the provider has answered with
\* the status http: callGemini / callOllama return or throw, the text is
\* cached and sent, or the catch block answers
ProviderAnswers(i, http) ==
  /\ i \in 1..Len(requests)
  /\ requests[i].response = None
  /\ http \in (IF requests[i].provider = "gemini" THEN GeminiAnswers ELSE OllamaAnswers)
  /\ LET req == requests[i]
         quota == req.provider = "gemini" /\ http \in {429, 503}
         response == IF http = 200 THEN Response(200, "success", Some(i), FALSE)
                     ELSE IF quota THEN Response(429, "disabled", None, FALSE)
                     ELSE Response(500, "", None, FALSE)
     IN  /\ geminiDisabledUntil' = IF quota THEN disableGeminiForToday
                                   ELSE geminiDisabledUntil
         /\ bioCache' = IF http = 200 /\ req.cacheKey # ""
                        THEN [k \in CacheKeys |->
                                IF k = req.cacheKey THEN Some(i) ELSE bioCache[k]]
                        ELSE bioCache
         /\ requests' = [k \in 1..Len(requests) |->
                           IF k = i THEN Answered(req, http, response) ELSE requests[k]]
  /\ UNCHANGED serverNow
  /\ UNCHANGED <<uiVars, careerVars, matchVars, clientVars>>

\* time passes
Tick ==
  /\ serverNow < MaxTime
  /\ serverNow' = serverNow + 1
  /\ UNCHANGED <<geminiDisabledUntil, bioCache, requests>>
  /\ UNCHANGED <<uiVars, careerVars, matchVars, clientVars>>

\* generateCareerBiography of aiClient.js: the status it reports for a
\* response
ClientStatus(response) ==
  IF response.http = 403 /\ response.status = "disabled" THEN "disabled"
  ELSE IF response.http < 200 \/ response.http > 299 THEN "error"
  ELSE response.status

InitServer ==
  /\ PageIdle
  /\ CareerIdle
  /\ MatchIdle
  /\ ServerIdle
  /\ ClientIdle
  /\ players = <<>>

NextServer ==
  \/ \E provider \in Providers, careerPayload \in CareerPayloads, cacheKey \in CacheKeys :
       PostCareer(provider, careerPayload, cacheKey)
  \/ \E i \in 1..MaxRequests, http \in GeminiAnswers : ProviderAnswers(i, http)
  \/ Tick

SpecServer == InitServer /\ [][NextServer]_vars

\* ------------------------------------------------------------------------
\* Team Impact Score (future.js).  A field of a season is Some(v) for a finite
\* number v and None for anything Number() does not turn into one (missing,
\* NaN, an infinity); pts in hundredths.  The score is the exact ratio
\* num / den.
\* ------------------------------------------------------------------------
\* num(value, fallback = 0)
num(value) == IF value = None THEN 0 ELSE value[1]

\* Number.isFinite(n) of a number held as an integer
IsFiniteNumber(n) == n \in Int

Ratio(n, d) == [num |-> n, den |-> d]

\* the filter of computeTeamImpactScore, on the values num returns
validSeasons(stats) ==
  SelectSeq(stats, LAMBDA season :
                     IsFiniteNumber(num(season.pts)) /\ IsFiniteNumber(num(season.wins)))

\* the filter applied to the fields as given
validSeasonsRaw(stats) ==
  SelectSeq(stats, LAMBDA season : season.pts # None /\ season.wins # None)

\* totalImpact, in hundredths of a point times wins: the division by the 82
\* games of a season is left to the denominator
totalImpact(valid) ==
  SumSeq([i \in 1..Len(valid) |-> num(valid[i].pts) * num(valid[i].wins)])

\* computeTeamImpactScore(seasonStats), seasonStats an array
computeTeamImpactScore(stats) ==
  IF Len(stats) = 0 THEN Ratio(0, 1)
  ELSE IF Len(validSeasons(stats)) > 0
       THEN Ratio(totalImpact(validSeasons(stats)), 100 * GamesPerSeason * Len(validSeasons(stats)))
       ELSE Ratio(0, 1)

\* the call
TeamImpactCall ==
  /\ teamImpact = None
  /\ teamImpact' = Some(computeTeamImpactScore(seasonStats))
  /\ UNCHANGED <<seasonStats, lastSimulationOutput, aiButtons, statusFetches,
                 aiModalCalls>>
  /\ UNCHANGED <<uiVars, careerVars, matchVars, serverVars>>

\* the arguments explored: up to MaxImpactSeasons seasons, each field a
\* finite value or not
MaxImpactSeasons == 3

ImpactSeasons ==
  {[pts |-> p, wins |-> w] : p \in {Some(2000), Some(1500), None},
                             w \in {Some(60), Some(20), None}}

InitImpact ==
  /\ PageIdle
  /\ CareerIdle
  /\ MatchIdle
  /\ ServerIdle
  /\ players = <<>>
  /\ teamImpact = None
  /\ lastSimulationOutput = None
  /\ aiButtons = None
  /\ statusFetches = {}
  /\ aiModalCalls = <<>>
  /\ \E n \in 0..MaxImpactSeasons : seasonStats \in [1..n -> ImpactSeasons]

NextImpact == TeamImpactCall

SpecImpact == InitImpact /\ [][NextImpact]_vars

\* ------------------------------------------------------------------------
\* The AI buttons of the results view (future.js, aiClient.js).  An output of
\* simulateCareer is named by its number in the order of rendering.
\* ------------------------------------------------------------------------
MaxRenders == 3
MaxModalCalls == 2

\* a button as renderResults creates it
NewButton == [disabled |-> FALSE, onclick |-> None]

\* what fetchAIStatus may resolve to: each provider enabled or not; both are
\* reported disabled when the backend cannot be reached
AIStatuses == [Providers -> BOOLEAN]

\* the branch of setupAIButtons for one button
SetupButton(button, enabled, o) ==
  IF ~enabled
  THEN [disabled |-> TRUE, onclick |-> button.onclick]
  ELSE [disabled |-> button.disabled, onclick |-> Some(o)]

\* renderResults(output) up to the await inside setupAIButtons(output): the
\* box is emptied, the output stored, two new buttons made, the status asked
renderResults(o) ==
  /\ o = IF lastSimulationOutput = None THEN 1 ELSE lastSimulationOutput[1] + 1
  /\ o <= MaxRenders
  /\ lastSimulationOutput' = Some(o)
  /\ aiButtons' = Some([p \in Providers |-> NewButton])
  /\ statusFetches' = statusFetches \cup {o}
  /\ UNCHANGED <<seasonStats, teamImpact, aiModalCalls>>
  /\ UNCHANGED <<uiVars, careerVars, matchVars, serverVars>>

\* the rest of setupAIButtons(output) once fetchAIStatus has resolved:
\* getElementById finds the buttons that are in the document now
StatusArrives(o, status) ==
  /\ o \in statusFetches
  /\ aiButtons # None
  /\ statusFetches' = statusFetches \ {o}
  /\ aiButtons' = Some([p \in Providers |-> SetupButton(aiButtons[1][p], status[p], o)])
  /\ UNCHANGED <<seasonStats, teamImpact, lastSimulationOutput, aiModalCalls>>
  /\ UNCHANGED <<uiVars, careerVars, matchVars, serverVars>>

\* a click on a button that is not disabled and has a handler:
\* generateAIBiography(output, provider) builds the payload from the output
\* the handler closed over and opens the modal
ClickGenerate(p) ==
  /\ aiButtons # None
  /\ ~aiButtons[1][p].disabled
  /\ aiButtons[1][p].onclick # None
  /\ Len(aiModalCalls) < MaxModalCalls
  /\ aiModalCalls' = Append(aiModalCalls,
                            [provider |-> p, careerPayload |-> aiButtons[1][p].onclick[1]])
  /\ UNCHANGED <<seasonStats, teamImpact, lastSimulationOutput, aiButtons,
                 statusFetches>>
  /\ UNCHANGED <<uiVars, careerVars, matchVars, serverVars>>

InitButtons ==
  /\ PageIdle
  /\ CareerIdle
  /\ MatchIdle
  /\ ServerIdle
  /\ ClientIdle
  /\ players = <<>>

NextButtons ==
  \/ \E o \in 1..MaxRenders : renderResults(o)
  \/ \E o \in 1..MaxRenders, status \in AIStatuses : StatusArrives(o, status)
  \/ \E p \in Providers : ClickGenerate(p)

SpecButtons == InitButtons /\ [][NextButtons]_vars

\* ------------------------------------------------------------------------
\* Claims
\* ------------------------------------------------------------------------
\* the output of the call that has returned
Returned == output[1]

\* the form is complete: a name, every active attribute picked, a team
C1_Complete ==
  /\ Trim(playerName) # <<>>
  /\ \A a \in Range(activeAttributes) : customPeak[a] # None
  /\ chosenTeam # Null

\* C1: clicking Career Sim invokes simulateCareer, and replaces the result,
\* only if the trimmed player name is non-empty, every active attribute has a
\* pick in customPeak and a team is chosen; otherwise the handler returns
\* after an alert and the previous result is left unchanged.
C1_RefusesIncomplete ==
  [][simulateFutureOnclick =>
       /\ (lastAlert' = None) <=> C1_Complete
       /\ lastAlert' = None =>
            /\ futureResults' # None
            /\ futureResults'[1].customName = Trim(playerName)
       /\ lastAlert' # None => futureResults' = futureResults]_vars

\* a click refused for the missing team while an earlier result is shown
C1_Witness ==
  /\ lastAlert # None
  /\ lastAlert[1].msg = "Pick a team before simulating."
  /\ futureResults # None
  /\ Trim(playerName) # <<>>
  /\ chosenTeam = Null

\* Math.round(G / 82), and clamp(round(G / 82) || 1, 1, 20), from their definitions
C2_Rounded(G) ==
  CHOOSE r \in 0..(G + 1) : 164 * r <= 2 * G + 82 /\ 2 * G + 82 < 164 * (r + 1)

C2_Expected(G) ==
  LET r == IF C2_Rounded(G) = 0 THEN 1 ELSE C2_Rounded(G)
  IN  IF r < 1 THEN 1 ELSE IF r > 20 THEN 20 ELSE r

C3_SameCareer ==
  (pc = "done" /\ firstOutput # None) => output = firstOutput

\* C7: careerFactorByYear is continuous at both segment boundaries: the rise
\* segment reaches at peakStart the value the peak segment has there, and the
\* peak segment has at peakEnd the value the decline segment starts from,
\* also when the peak window is a single year.  Stated for the careers whose
\* peak window is not empty (peakStart <= peakEnd).
C7_Continuous ==
  (pc = "loop" /\ PeakStart(custom.base.g) <= PeakEnd(custom.base.g, totalYears)) =>
    LET g == custom.base.g
        ps == PeakStart(g)
        pe == PeakEnd(g, totalYears)
    IN  /\ RiseSegment(ps, g, totalYears) = PeakSegment(ps, g, totalYears)
        /\ PeakSegment(pe, g, totalYears) = DeclineSegment(pe, g, totalYears)

\* C8: in every simulated season the custom player's line is within its caps:
\* 0 <= pts <= 45, 0 <= ast <= 15, 0 <= reb <= 18, 0 <= stl <= 3.5,
\* 0 <= blk <= 3.5 and 8 <= per <= 32.
C8_WithinCaps ==
  \A i \in 1..Len(seasons) :
    LET c == seasons[i].custom
    IN  /\ 0 <= c.pts /\ c.pts <= 4500
        /\ 0 <= c.ast /\ c.ast <= 1500
        /\ 0 <= c.reb /\ c.reb <= 1800
        /\ 0 <= c.stl /\ c.stl <= 350
        /\ 0 <= c.blk /\ c.blk <= 350
        /\ 800 <= c.per /\ c.per <= 3200

\* a season in which the caps of points, rebounds, steals and PER and the
\* floor of assists were all met
C8_Witness ==
  \E i \in 1..Len(seasons) :
    LET c == seasons[i].custom
    IN  c.pts = 4500 /\ c.reb = 1800 /\ c.stl = 350 /\ c.per = 3200 /\ c.ast = 0

\* the blend 0.55 pts + 0.30 reb + 0.25 ast + 0.15 per + 0.4 stl + 0.4 blk of an entry
C9_Blend(p) ==
  55 * p.pts + 30 * p.reb + 25 * p.ast + 15 * p.per + 40 * p.stl + 40 * p.blk

\* C9: the season MVP has the highest composite score of the custom player
\* and the league, every participant's composite score being the blend
\* 0.55 pts + 0.30 reb + 0.25 ast + 0.15 per + 0.4 stl + 0.4 blk; on equal
\* scores the custom player, first in input order, wins.
C9_MvpHasHighestBlend ==
  \A i \in 1..Len(seasons) :
    LET parts == Range(seasons[i].leaderboards.topPts)
        mvp == seasons[i].awards.MVP
    IN  /\ mvp \in parts
        /\ \A p \in parts : p.score = C9_Blend(p)
        /\ \A p \in parts : C9_Blend(mvp) >= C9_Blend(p)
        /\ \A p \in parts : (p.isCustom /\ C9_Blend(p) = C9_Blend(mvp)) => mvp.isCustom

\* the number of seasons an award was won in, and the custom entry among the top 15 by PER
C10_Count(wins) == Cardinality({i \in 1..Len(wins) : wins[i]})

C10_OwnTop15(s) ==
  \E k \in 1..Min(AllProSize, Len(s.leaderboards.topPer)) :
    s.leaderboards.topPer[k].isCustom

\* C10: when simulateCareer returns, each tally counts the seasons in which
\* the custom player's own entry won the award (for AllPro: was among the top
\* 15 by PER), and Champs the seasons whose champion is the custom player's
\* team, whatever the league pool.
C10_TalliesCountOwnWins ==
  pc = "done" =>
    LET ss == Returned.seasons
        aw == Returned.awards
    IN  /\ aw.MVP = C10_Count([i \in 1..Len(ss) |-> ss[i].awards.MVP.isCustom])
        /\ aw.ROY = C10_Count([i \in 1..Len(ss) |->
                                 ss[i].awards.ROY # None /\ ss[i].awards.ROY[1].isCustom])
        /\ aw.MIP = C10_Count([i \in 1..Len(ss) |->
                                 ss[i].awards.MIP # None /\ ss[i].awards.MIP[1].isCustom])
        /\ aw.FinalsMVP = C10_Count([i \in 1..Len(ss) |-> ss[i].awards.FinalsMVP.isCustom])
        /\ aw.AllPro = C10_Count([i \in 1..Len(ss) |-> C10_OwnTop15(ss[i])])
        /\ aw.Champs = C10_Count([i \in 1..Len(ss) |-> ss[i].awards.Champion = custom.team])

\* sum(score * games) and sum(games) || 1 over the returned seasons
C6_Sum(ss) ==
  SumSeq([i \in 1..Len(ss) |->
            ss[i].custom.games
              * (55 * ss[i].custom.pts + 30 * ss[i].custom.reb
                   + 25 * ss[i].custom.ast + 15 * ss[i].custom.per)])

C6_Played(ss) ==
  LET n == SumSeq([i \in 1..Len(ss) |-> ss[i].custom.games])
  IN  IF n = 0 THEN 1 ELSE n

C4_SameCall(i, j) ==
  /\ matchLog[i].a = matchLog[j].a
  /\ matchLog[i].b = matchLog[j].b
  /\ matchLog[i].detail = matchLog[j].detail
  /\ matchLog[i].isTeam = matchLog[j].isTeam

C5_Entry(e) ==
  /\ e.story.scoreA # e.story.scoreB
  /\ e.roundedA = e.roundedB =>
       /\ e.baseA >= e.baseB =>
            e.story.scoreA = e.roundedA + 1 /\ e.story.scoreB = e.roundedB
       /\ e.baseA < e.baseB =>
            e.story.scoreB = e.roundedB + 1 /\ e.story.scoreA = e.roundedA
       /\ Abs(e.story.scoreA - e.story.scoreB) = 1
  /\ e.roundedA # e.roundedB =>
       e.story.scoreA = e.roundedA /\ e.story.scoreB = e.roundedB
  /\ e.winner = "a" => e.story.scoreA > e.story.scoreB
  /\ e.winner = "b" => e.story.scoreB > e.story.scoreA

\* C5: when the two rounded scores of a match are equal exactly one side is
\* bumped by one point, the side with the higher base score, side A when the
\* bases are equal; so no match ends level, a tie-broken match is won by one
\* point, and the reported winner has the strictly higher final score.
C5_TieBreak == \A i \in 1..Len(matchLog) : C5_Entry(matchLog[i])

\* the log holds a tie broken for B on the higher base, a tie of equal bases
\* broken for A, and a match B won without a tie
C5_Witness ==
  \E i, j, k \in 1..Len(matchLog) :
      /\ matchLog[i].roundedA = matchLog[i].roundedB
      /\ matchLog[i].baseA < matchLog[i].baseB
      /\ matchLog[i].winner = "b"
      /\ matchLog[j].roundedA = matchLog[j].roundedB
      /\ matchLog[j].baseA = matchLog[j].baseB
      /\ matchLog[j].a # matchLog[j].b
      /\ matchLog[j].winner = "a"
      /\ matchLog[k].roundedA < matchLog[k].roundedB
      /\ matchLog[k].winner = "b"

\* the participants of season i in input order, the custom player first, each
\* with its place in that order
C11_Participants(i) ==
  <<[pos |-> 0, pts |-> seasons[i].custom.pts, ast |-> seasons[i].custom.ast,
     reb |-> seasons[i].custom.reb, per |-> seasons[i].custom.per, isCustom |-> TRUE]>>
    \o [k \in 1..Len(league) |->
          LET l == LeagueLine(league[k], ZeroLeagueNoise(league)[k])
          IN  [pos |-> k, pts |-> l.pts, ast |-> l.ast, reb |-> l.reb, per |-> l.per,
               isCustom |-> FALSE]]

\* the participant that k - 1 others are ahead of: those of a higher value
\* of f, and those of the same value earlier in input order
C11_Ranked(parts, f, k) ==
  CHOOSE p \in Range(parts) :
    Cardinality({q \in Range(parts) :
                   q[f] > p[f] \/ (q[f] = p[f] /\ q.pos < p.pos)}) = k - 1

C11_Board(i, board, f) ==
  LET parts == C11_Participants(i)
  IN  /\ Len(board) = Min(10, Len(parts))
      /\ \A k \in 1..Len(board) :
            LET p == C11_Ranked(parts, f, k)
            IN  /\ board[k][f] = p[f]
                /\ board[k].isCustom = p.isCustom
                /\ ~p.isCustom => board[k].name = league[p.pos].name

\* C11: each of the four season leaderboards holds the min(10, number of
\* participants) participants of the highest value of its stat, in descending
\* order, participants of equal value in their input order.
C11_Leaderboards ==
  \A i \in 1..Len(seasons) :
    /\ C11_Board(i, seasons[i].leaderboards.topPts, "pts")
    /\ C11_Board(i, seasons[i].leaderboards.topAst, "ast")
    /\ C11_Board(i, seasons[i].leaderboards.topReb, "reb")
    /\ C11_Board(i, seasons[i].leaderboards.topPer, "per")

\* a season of thirteen participants whose rebound board opens with the
\* custom player and two league players, all three at the cap of 18, and
\* whose points board holds two players of 25.0 behind one of 30.0
C11_Witness ==
  \E i \in 1..Len(seasons) :
    LET b == seasons[i].leaderboards
    IN  /\ Len(league) = 12
        /\ Len(b.topReb) = 10
        /\ b.topReb[1].isCustom /\ b.topReb[1].reb = 1800
        /\ b.topReb[2].reb = 1800 /\ b.topReb[3].reb = 1800
        /\ \E k \in 1..8 :
              /\ b.topPts[k].pts = 3000
              /\ b.topPts[k + 1].pts = 2500
              /\ b.topPts[k + 2].pts = 2500
              /\ b.topPts[k + 1].name # b.topPts[k + 2].name

\* entries i and j of the log are the same pairing with the sides exchanged
C15_Mirrored(i, j) ==
  /\ matchLog[i].a = matchLog[j].b
  /\ matchLog[i].b = matchLog[j].a
  /\ matchLog[i].detail = matchLog[j].detail
  /\ matchLog[i].isTeam = matchLog[j].isTeam

\* C15: a match of X against Y and the match of Y against X have the same
\* winner and give each of the two entities the same final score.
C15_OrderIndependent ==
  \A i \in 1..Len(matchLog), j \in 1..Len(matchLog) :
    C15_Mirrored(i, j) =>
      /\ matchLog[i].story.scoreA = matchLog[j].story.scoreB
      /\ matchLog[i].story.scoreB = matchLog[j].story.scoreA
      /\ (matchLog[i].winner = "a") = (matchLog[j].winner = "b")

\* a participant's team name is empty or all white space
C12_BlankTeamName ==
  \E k \in 1..Len(participants) :
    \A c \in Range(participants[k].teamName) : c \in {9, 10, 11, 12, 13, 32, 160}

\* C12: Play New Game in team mode with a team name that is empty or white
\* space alerts, simulates no game and leaves the displayed result as it was;
\* otherwise, with fewer than 2 participants, the result is the 'Need at least
\* 2 participants' message alone and no game is simulated.
C12_ValidatedFirst ==
  [][\A detail \in MatchDetails :
       /\ (gameMode = "team" /\ C12_BlankTeamName /\ runDeterministicSim(detail))
            => /\ gameAlert' = Some(NameAlert)
               /\ storyCalls' = <<>>
               /\ simulationResult' = simulationResult
       /\ (Len(participants) < 2 /\ ~(gameMode = "team" /\ C12_BlankTeamName)
             /\ runDeterministicSim(detail))
            => /\ simulationResult' = Some(NeedTwo)
               /\ storyCalls' = <<>>
               /\ gameAlert' = None]_vars

\* a team game of three with a blank team name has just been refused, the
\* message of an earlier game of one still on display
C12_Witness ==
  /\ gameMode = "team"
  /\ Len(participants) = 3
  /\ C12_BlankTeamName
  /\ gameAlert = Some(NameAlert)
  /\ storyCalls = <<>>
  /\ simulationResult = Some(NeedTwo)

\* a card lacks the pick of one of the six attributes
C13_Unpicked ==
  \E k \in 1..Len(participants), a \in Range(GameAttributes) :
    ~HasEntry(participants[k].attributes, a)

\* C13: Play New Game in attribute mode, a participant lacking the pick of
\* one of the six attributes, simulates no match.
C13_RejectsUnpicked ==
  [][\A detail \in MatchDetails :
       (gameMode = "attribute" /\ C13_Unpicked /\ runDeterministicSim(detail))
         => storyCalls' = <<>>]_vars

\* the calls of renderMatch that entrant e took part in
C14_Played(e) == {k \in 1..Len(storyCalls) : storyCalls[k].a = e \/ storyCalls[k].b = e}

\* entrant c is the champion of the tournament just played
C14_Champion(c) ==
  /\ simulationResult[1].champion = Some(EntityName(participants[c]))
  /\ C14_Played(c) # {}
  /\ \A k \in C14_Played(c) : storyCalls[k].winner = c
  /\ \A e \in (1..Len(participants)) \ {c} :
        \E k \in C14_Played(e) :
          /\ storyCalls[k].winner # e
          /\ \A m \in C14_Played(e) : m <= k /\ (m # k => storyCalls[m].winner = e)

\* C14: a tournament of n >= 3 entrants, whatever the shuffle and the bye
\* draws, ends after exactly n - 1 matches with exactly one champion, an
\* entrant who won every match it played; every other entrant lost exactly
\* one match and took part in none after it.
C14_Tournament ==
  (Len(participants) >= 3 /\ storyCalls # <<>>) =>
    /\ Len(storyCalls) = Len(participants) - 1
    /\ \A k \in 1..Len(storyCalls) :
          /\ storyCalls[k].a \in 1..Len(participants)
          /\ storyCalls[k].b \in 1..Len(participants)
          /\ storyCalls[k].a # storyCalls[k].b
          /\ storyCalls[k].winner = IF storyCalls[k].scoreA > storyCalls[k].scoreB
                                    THEN storyCalls[k].a ELSE storyCalls[k].b
          /\ storyCalls[k].scoreA # storyCalls[k].scoreB
    /\ Cardinality({c \in 1..Len(participants) : C14_Champion(c)}) = 1

\* a tournament of three was played, and the entrant drawn for the bye of the
\* first round won the final as its second-named side
C14_Witness ==
  /\ Len(participants) = 3
  /\ Len(storyCalls) = 2
  /\ storyCalls[1].round = 1 /\ storyCalls[2].round = 2
  /\ Len(simulationResult[1].byes) = 1
  /\ simulationResult[1].champion = Some(simulationResult[1].byes[1].name)
  /\ storyCalls[2].winner \notin {storyCalls[1].a, storyCalls[1].b}

\* the raw picks of a card: the rows its attributes were picked from
C16_Picks(card) == [k \in 1..Len(GameAttributes) |-> PickedRow(card, GameAttributes[k])]

\* the adjustments of the positions C, PG and SG, over the raw picks
C16_Adjusted(card) ==
  LET e == EntityOf(card, "attribute")
  IN  /\ card.position = PosC => e.reb = PickedRow(card, "rebounding").TRB + 300
      /\ card.position = PosPG => e.ast = PickedRow(card, "passing").AST + 70
      /\ card.position = PosSG => e.pts = PickedRow(card, "shooting").PTS + 150

\* C16: in attribute mode the stat vector of a participant follows the
\* position of the card: C has rebounds raised by 3.0 over the raw pick, PG
\* assists by 0.7 and SG points by 1.5, and a match of two participants of
\* identical picks, one at C and one at SF, has different base scores.
C16_PositionAdjusted ==
  \A k \in 1..Len(storyCalls) :
    LET ca == participants[storyCalls[k].a]
        cb == participants[storyCalls[k].b]
    IN  /\ C16_Adjusted(ca)
        /\ C16_Adjusted(cb)
        /\ (C16_Picks(ca) = C16_Picks(cb) /\ {ca.position, cb.position} = {PosC, PosSF})
              => storyCalls[k].baseA # storyCalls[k].baseB

\* C17: whatever teams were selected and eras changed before the click, the
\* career a click of Career Sim returns has the custom player on the team
\* shown as chosen at the click, in every season.
C17_PlaysForChosenTeam ==
  [][(simulateFutureOnclick /\ lastAlert' = None) =>
       /\ futureResults'[1].team = chosenTeam
       /\ futureResults'[1].team = teamField]_vars

\* request i is one whose Gemini call was answered with HTTP 429
C18_HitQuota(i) ==
  /\ requests[i].provider = "gemini"
  /\ requests[i].upstream = Some(429)

\* request j is answered as the lock-out demands: 403 and 'disabled', which
\* the client reports as 'disabled'
C18_Refused(j) ==
  requests[j].response # None =>
    /\ requests[j].response[1].http = 403
    /\ requests[j].response[1].status = "disabled"
    /\ ClientStatus(requests[j].response[1]) = "disabled"

\* C18: from the moment a Gemini call is answered with HTTP 429 until the
\* next local midnight every request for gemini, the one whose call hit the
\* quota included, is answered with 403 and status 'disabled' and makes no
\* call to Gemini; after that midnight Gemini is enabled again.
C18_LockedOut ==
  \A i \in 1..Len(requests) :
    C18_HitQuota(i) =>
      LET hit == requests[i].answeredAt[1]
      IN  /\ C18_Refused(i)
          /\ \A j \in 1..Len(requests) :
                (/\ requests[j].provider = "gemini"
                 /\ requests[j].receivedAt > hit
                 /\ requests[j].receivedAt < NextMidnight(hit))
                  => (C18_Refused(j) /\ ~requests[j].called)
          /\ (serverNow > NextMidnight(hit)
               /\ \A j \in 1..Len(requests) :
                     requests[j].upstream \in {Some(429), Some(503)}
                       => requests[j].answeredAt[1] <= hit)
                => isGeminiEnabledNow

\* the requests of cache key k whose provider call returned a text
C19_Generated(k) ==
  {i \in 1..Len(requests) : requests[i].cacheKey = k /\ requests[i].upstream = Some(200)}

\* C19: among the requests of one non-empty cache key, overlapping ones
\* included, the provider is called successfully at most once; every request
\* received after that is answered from the cache with fromCache = true; and
\* the cache holds nothing but the text of a successful generation.
C19_CachedOnce ==
  \A k \in CacheKeys \ {""} :
    /\ Cardinality(C19_Generated(k)) <= 1
    /\ \A i \in C19_Generated(k), j \in 1..Len(requests) :
          (requests[j].cacheKey = k /\ requests[j].receivedAt > requests[i].answeredAt[1])
            => /\ requests[j].response # None
               /\ requests[j].response[1].fromCache
               /\ ~requests[j].called
    /\ bioCache[k] # None =>
          \E i \in C19_Generated(k) : bioCache[k] = Some(i)

\* the curve factor of year y of the career that has been played
C20_Factor(y) == careerFactorByYear(y, custom.base.g, totalYears)

\* C20: the career curve has a single peak at peakEnd: the factor of year 1
\* is below 1.0, it does not decrease over the years 1..peakEnd, its maximum
\* over the career is at peakEnd, and from peakEnd on it never increases from
\* one year to the next.
C20_SinglePeak ==
  pc = "done" =>
    LET pe == PeakEnd(custom.base.g, totalYears)
    IN  /\ C20_Factor(1) < CurveOne
        /\ \A y \in 1..(pe - 1) : C20_Factor(y) <= C20_Factor(y + 1)
        /\ \A y \in 1..totalYears : C20_Factor(y) <= C20_Factor(pe)
        /\ \A y \in pe..(totalYears - 1) : C20_Factor(y + 1) <= C20_Factor(y)

\* the games of season i of the career returned
C29_Games(i) == Returned.seasons[i].custom.games

\* C29: the games of the seasons of a career are non-negative integers that
\* sum to totalGames = max(0, round(G)); two seasons differ by at most one
\* game, and the seasons with the extra game are the earliest.
C29_GamesPartition ==
  pc = "done" =>
    LET n == Len(Returned.seasons)
    IN  /\ n = Returned.totalYears
        /\ \A i \in 1..n : C29_Games(i) \in Nat
        /\ SumSeq([i \in 1..n |-> C29_Games(i)]) = Max(0, args.peak.g)
        /\ \A i \in 1..n, k \in 1..n :
              /\ C29_Games(i) - C29_Games(k) <= 1
              /\ i < k => C29_Games(i) >= C29_Games(k)

\* a career of 500 games in six seasons: 84 games in the first two, 83 in
\* the other four
C29_Witness ==
  /\ pc = "done"
  /\ args.peak.g = 500
  /\ Len(Returned.seasons) = 6
  /\ C29_Games(1) = 84 /\ C29_Games(2) = 84
  /\ \A i \in 3..6 : C29_Games(i) = 83

\* the composite score of the custom player's entry in a season record
CustomScoreOf(s) ==
  (CHOOSE p \in Range(s.leaderboards.topPts) : p.isCustom).score

\* C21: in every season of year 2 or later in which the Most Improved Player
\* award is given, the winner's delta (score minus reference prior score) is
\* strictly positive and is at least the custom player's own delta against
\* the season before, for every league pool, an empty one included.
C21_MipLargestPositive ==
  \A i \in 2..Len(seasons) :
    seasons[i].awards.MIP # None =>
      LET mip == seasons[i].awards.MIP[1]
      IN  /\ mip.delta > 0
          /\ mip.delta >= CustomScoreOf(seasons[i]) - CustomScoreOf(seasons[i - 1])

\* C22: the record of year 1 has ROY equal to that season's MVP and no MIP;
\* every record of year 2 or later has no ROY and has a MIP, and when the MIP
\* is the custom player its delta is its score minus its actual score of the
\* season before, which is what lastYearScore holds after every season.
C22_AwardGating ==
  /\ \A i \in 1..Len(seasons) :
       LET s == seasons[i]
           a == s.awards
       IN  /\ s.year = i
           /\ i = 1 => a.ROY = Some(a.MVP) /\ a.MIP = None
           /\ i >= 2 =>
                 /\ a.ROY = None
                 /\ a.MIP # None
                 /\ a.MIP[1].isCustom =>
                       a.MIP[1].delta = CustomScoreOf(s) - CustomScoreOf(seasons[i - 1])
  /\ Len(seasons) > 0 => lastYearScore = Some(CustomScoreOf(seasons[Len(seasons)]))

\* three seasons played: the custom MVP was Rookie of the Year, and won the
\* MIP of year 2 with a gain and that of year 3 with a loss
C22_Witness ==
  /\ Len(seasons) = 3
  /\ seasons[1].awards.ROY # None /\ seasons[1].awards.ROY[1].isCustom
  /\ seasons[2].awards.MIP[1].isCustom /\ seasons[2].awards.MIP[1].delta > 0
  /\ seasons[3].awards.MIP[1].isCustom /\ seasons[3].awards.MIP[1].delta < 0

\* the teams of a season record with their aggregates, best first
C23_Entries(s) == TeamEntries(s.leaderboards.topPts)

\* C23: in every season each team's win total is an integer in 20..60, a team
\* with a higher aggregate never has fewer wins, the team with the lowest
\* aggregate has 20, and when two teams have different aggregates the
\* champion has 60; the record's wins are those of the custom player's team.
C23_WinsNormalised ==
  \A i \in 1..Len(seasons) :
    LET s == seasons[i]
        entries == C23_Entries(s)
        n == Len(entries)
    IN  /\ s.custom.wins = TeamWins(entries, s.custom.team)
        /\ \A k \in 1..n : TeamWins(entries, entries[k].team) \in 20..60
        /\ \A k \in 1..n, m \in 1..n :
              entries[k].total > entries[m].total =>
                TeamWins(entries, entries[k].team) >= TeamWins(entries, entries[m].team)
        /\ TeamWins(entries, entries[n].team) = 20
        /\ entries[1].total # entries[n].total =>
              /\ entries[1].team = s.awards.Champion
              /\ TeamWins(entries, s.awards.Champion) = 60

\* no league player carries the custom player's name
C30_OwnName == \A i \in 1..Len(league) : league[i].name # custom.name

\* the tallies against the number of seasons played so far
C30_Bounded ==
  C30_OwnName =>
    LET n == Len(seasons)
    IN  /\ \A k \in {"MVP", "AllPro", "Champs", "FinalsMVP"} : awards[k] \in 0..n
        /\ awards.ROY \in 0..1
        /\ awards.MIP >= 0
        /\ n >= 1 => awards.MIP <= n - 1
        /\ awards.FinalsMVP <= awards.Champs

\* C30: when the custom player's name differs from every league player's,
\* MVP, AllPro, Champs and FinalsMVP lie between 0 and the number of seasons
\* played so far, ROY is at most 1, MIP at most the seasons played less one
\* once a season has been played, FinalsMVP is at most Champs, and no tally
\* ever decreases during the career.
C30_TalliesConsistent ==
  /\ []C30_Bounded
  /\ [][C30_OwnName => \A k \in DOMAIN awards : awards'[k] >= awards[k]]_vars

\* two seasons against a differently named league player: MVP, Finals MVP
\* and Most Improved in the second one only
C30_Witness ==
  /\ C30_OwnName /\ Len(league) = 1 /\ Len(seasons) = 2
  /\ awards.MVP = 1 /\ awards.FinalsMVP = 1 /\ awards.Champs >= 1
  /\ awards.ROY = 0 /\ awards.MIP = 1 /\ awards.AllPro = 2

\* entrant e lost a match before round r
C24_Lost(e, r) ==
  \E k \in 1..Len(storyCalls) :
    /\ storyCalls[k].round < r
    /\ e \in {storyCalls[k].a, storyCalls[k].b}
    /\ storyCalls[k].winner # e

\* the entrants still in the tournament in round r, their matches of that
\* round, those of them without a match, and the bye lines of the round
C24_Entrants(r) == {e \in 1..Len(participants) : ~C24_Lost(e, r)}

C24_Matches(e, r) ==
  {k \in 1..Len(storyCalls) :
     storyCalls[k].round = r /\ e \in {storyCalls[k].a, storyCalls[k].b}}

C24_SatOut(r) == {e \in C24_Entrants(r) : C24_Matches(e, r) = {}}

C24_ByeLines(r) ==
  {k \in 1..Len(simulationResult[1].byes) : simulationResult[1].byes[k].round = r}

\* C24: in every round of a tournament a bye is granted exactly when the
\* number of entrants still in the round is odd; then exactly one entrant
\* receives it, is named in the round's bye line and advances without
\* playing, and every other entrant of the round plays exactly one match in
\* it; nobody eliminated earlier plays.
C24_Byes ==
  (Len(participants) >= 3 /\ storyCalls # <<>>) =>
    \A r \in 1..Len(participants) :
      Cardinality(C24_Entrants(r)) > 1 =>
        /\ Cardinality(C24_SatOut(r)) = Cardinality(C24_Entrants(r)) % 2
        /\ Cardinality(C24_ByeLines(r)) = Cardinality(C24_Entrants(r)) % 2
        /\ \A k \in C24_ByeLines(r) :
              \E e \in C24_SatOut(r) :
                simulationResult[1].byes[k].name = EntityName(participants[e])
        /\ C24_SatOut(r) \subseteq C24_Entrants(r + 1)
        /\ \A e \in C24_Entrants(r) \ C24_SatOut(r) : Cardinality(C24_Matches(e, r)) = 1
        /\ \A e \in (1..Len(participants)) \ C24_Entrants(r) : C24_Matches(e, r) = {}

\* a tournament of five: a bye in round 1 and another in round 2, given to
\* two different entrants, and a final of two in round 3 lost by the entrant
\* that sat out round 2
C24_Witness ==
  /\ Len(participants) = 5 /\ Len(storyCalls) = 4
  /\ Cardinality(C24_Entrants(2)) = 3 /\ Cardinality(C24_Entrants(3)) = 2
  /\ Cardinality(C24_ByeLines(1)) = 1 /\ Cardinality(C24_ByeLines(2)) = 1
  /\ C24_ByeLines(3) = {} /\ C24_SatOut(3) = {}
  /\ C24_SatOut(1) # C24_SatOut(2)
  /\ \E e \in C24_SatOut(2) : storyCalls[4].winner # e /\ C24_Matches(e, 3) = {4}

\* C27: once a team is selected, every step other than selecting a team in
\* the picker or Clear leaves chosenTeam as it was, with the team field
\* showing it; opening the picker and closing it are such steps.
C27_TeamChoicePersists ==
  [][(/\ chosenTeam # Null
      /\ ~(\E i \in 1..MaxTeamOptions : SelectTeam(i))
      /\ ~resetPlayerBuilder)
       => (chosenTeam' = chosenTeam /\ teamField' = chosenTeam')]_vars

\* the seasons whose pts and wins are both finite as given
C25_Qualifying == validSeasonsRaw(seasonStats)

C26_Source(response) == requests[response.text[1]]

\* C26: every request answered 'success' carries a text that was generated
\* from a careerPayload equal to the one the request submitted.
C26_BiographyOfSubmittedCareer ==
  \A j \in 1..Len(requests) :
    (requests[j].response # None /\ requests[j].response[1].status = "success") =>
      C26_Source(requests[j].response[1]).careerPayload = requests[j].careerPayload

\* C28: once no status fetch is pending, a button that is enabled and has a
\* handler generates from the output rendered last (lastSimulationOutput),
\* never from an earlier one, whatever the order the fetches completed in.
C28_ButtonsActOnLatest ==
  (statusFetches = {} /\ aiButtons # None) =>
    \A p \in Providers :
      (~aiButtons[1][p].disabled /\ aiButtons[1][p].onclick # None) =>
        aiButtons[1][p].onclick = lastSimulationOutput

====
